---- MODULE Spec2Model ----
(***************************************************************************)
(* A model of the slide handle of src/src/openslide.c: detection and open, *)
(* the level/downsample model, the sticky error, the read accessors, the   *)
(* tiled full-colour and gray region readers, and close.                   *)
(*                                                                         *)
(* Doubles are modelled in fixed point: a downsample value v is the        *)
(* integer v * DS_UNIT.  With level dimensions drawn from powers of four   *)
(* up to 16 every quotient and mean the code computes is exact in this     *)
(* unit.                                                                   *)
(***************************************************************************)
EXTENDS Integers, Sequences, FiniteSets, TLC

VARIABLES
  env,          \* the environment: the slide file and the compositing library
  pixman_once,  \* the GOnce of openslide_open: "init" or "done"
  life,         \* "unopened", "null" (open returned NULL), "open", "closed", "crashed"
  osr,          \* the openslide_t handle, or NoHandle
  thr,          \* per thread: the call in flight, or what its last call returned
  last,         \* what the last openslide_open or openslide_close returned
  teardown,     \* what openslide_close released, and how often
  image         \* the call targets of the image kernels, per kernel kind

vars == <<env, pixman_once, life, osr, thr, last, teardown, image>>

NULL == "NULL"

\* values handed to and returned from a call, by type
NoArg == [none |-> TRUE]
Void == [void |-> TRUE]
Num(n) == [i |-> n]
Pair(p) == [w |-> p[1], h |-> p[2]]
Text(x) == [s |-> x]
Names(S) == [names |-> S]

\* no handle exists
NoHandle == [handle |-> FALSE]

(***************************************************************************)
(* Bounds and program constants.                                           *)
(***************************************************************************)
\* the largest number of pyramid levels a modelled file has
MaxLevels == 3

\* one fixed-point unit: the double 1.0 is DS_UNIT
DS_UNIT == 32

\* the sub-tile edge of the region readers
d == 4096

\* the number of entries of formats[] before the NULL terminator
NumFormats == 13

PIXEL_BYTES_GRAY8 == 1
PIXEL_BYTES_GRAY16 == 2
\* bytes of one full-colour pixel (uint32_t)
PIXEL_BYTES_ARGB == 4

Threads == {"t1", "t2"}

Min(a, b) == IF a < b THEN a ELSE b

\* C's integer division truncates toward zero
CDiv(a, b) ==
  IF (a >= 0) = (b > 0) \/ a = 0
  THEN (IF a >= 0 THEN a ELSE -a) \div (IF b > 0 THEN b ELSE -b)
  ELSE -((IF a >= 0 THEN a ELSE -a) \div (IF b > 0 THEN b ELSE -b))

(***************************************************************************)
(* The error messages of openslide.c.                                      *)
(***************************************************************************)
MSG_PIXMAN   == "pixman 0.38.x does not render correctly"
MSG_UNKNOWN  == "Unknown error"
MSG_NEGATIVE == "negative width or negative height not allowed"
MSG_CHANNEL  == "openslide_read_region() can only read single channel slide"
MSG_LEVEL    == "invalid level"
MSG_ALLOC    == "Couldn't allocate bytes for openslide_read_region_gray()"
\* reasons reported by the collaborators (backend, compositing surface)
MSG_BACKEND  == "backend: cannot open"
MSG_PAINT    == "backend: paint_region failed"
MSG_CAIRO    == "cairo error"
MSG_ICC      == "backend: read_icc_profile failed"
MSG_ARGB     == "associated image: get_argb_data failed"

(***************************************************************************)
(* The sticky error.  openslide-error.c is not among the sources; the      *)
(* specification requires a single-assignment publish where the first      *)
(* writer wins, and a reader that sees the stored message or none.         *)
(***************************************************************************)
openslide_get_error(h) == h.error

\* a NULL GError is refused (nothing is stored)
_openslide_propagate_error(h, msg) ==
  IF msg = NULL \/ h.error # NULL THEN h ELSE [h EXCEPT !.error = msg]

(***************************************************************************)
(* Levels.                                                                 *)
(***************************************************************************)
Level(w, h, ds) == [w |-> w, h |-> h, downsample |-> ds]

\* level_in_range, lines 81-91
level_in_range(h, level) ==
  IF level < 0 THEN FALSE
  ELSE IF level > h.level_count - 1 THEN FALSE
  ELSE TRUE

(***************************************************************************)
(* Detection: detect_format, lines 126-162, over formats[], lines 43-58.   *)
(* A file is described by the set of registry indexes whose detect accepts *)
(* it, whatever the container sniff gave (each backend decides for itself  *)
(* what an absent sniff result means).                                     *)
(***************************************************************************)
\* lines 139-158: the loop over formats[] from entry cur on; probed lists
\* the calls of format->detect made, each with the sniff result it was given
RECURSIVE detect_from(_, _, _, _)
detect_from(file, tl, cur, probed) ==
  IF cur > NumFormats THEN [found |-> FALSE, format |-> 0, probed |-> probed]
  ELSE IF cur \in file.accepts
       THEN [found |-> TRUE, format |-> cur,
             probed |-> Append(probed, [format |-> cur, tl |-> tl])]
       ELSE detect_from(file, tl, cur + 1,
                        Append(probed, [format |-> cur, tl |-> tl]))

\* a variant that gives up when the container sniff fails
detect_format_NeedsSniff(file) ==
  IF ~file.tifflike THEN [found |-> FALSE, format |-> 0, probed |-> <<>>]
  ELSE detect_from(file, file.tifflike, 1, <<>>)

\* lines 126-162: tl is the result of _openslide_tifflike_create, absent
\* (FALSE) when the file is not TIFF-like; the failure is only logged
detect_format(file) == detect_from(file, file.tifflike, 1, <<>>)

(***************************************************************************)
(* open_backend, lines 164-186: the backend's open returns file.open_ret   *)
(* and reports file.open_err.                                              *)
(***************************************************************************)
\* a variant without the "Unknown error" fallback of lines 171-177
open_backend_NoFallback(file) ==
  IF ~file.open_ret
  THEN [ok |-> FALSE, err |-> file.open_err]
  ELSE IF file.open_err # NULL
       THEN [ok |-> FALSE, err |-> file.open_err]
       ELSE [ok |-> TRUE, err |-> NULL]

\* a variant that believes a backend open that returned success
open_backend_TrustReturn(file) ==
  IF ~file.open_ret
  THEN [ok |-> FALSE,
        err |-> IF file.open_err = NULL THEN MSG_UNKNOWN ELSE file.open_err]
  ELSE [ok |-> TRUE, err |-> NULL]

open_backend(file) ==
  IF ~file.open_ret
  THEN [ok |-> FALSE,
        err |-> IF file.open_err = NULL THEN MSG_UNKNOWN ELSE file.open_err]
  ELSE IF file.open_err # NULL
       THEN [ok |-> FALSE, err |-> file.open_err]
       ELSE [ok |-> TRUE, err |-> NULL]

\* g_new0(openslide_t, 1) with the two hash tables, lines 222-227
NewHandle ==
  [error |-> NULL, levels |-> <<>>, level_count |-> 0, level_count_all |-> 0,
   channel_count |-> 0, timepoint_count |-> 0, zstack_count |-> 0,
   icc_profile_size |-> 0, ops |-> FALSE, cache |-> FALSE,
   properties |-> {}, property_names |-> {},
   associated_images |-> {}, associated_image_names |-> {}]

\* what format->open stores in the handle (the backend capability interface)
BackendPopulate(h, file) ==
  [h EXCEPT !.levels = file.levels,
            !.level_count = file.level_count,
            !.level_count_all = Len(file.levels),
            !.channel_count = file.channel_count,
            !.timepoint_count = 1,
            !.zstack_count = 1,
            !.icc_profile_size = file.icc_profile_size,
            !.ops = file.reg_ops,
            !.cache = file.reg_cache,
            !.associated_images = file.assoc]

\* a variant that infers the downsample from the widths alone
InferDownsample_WidthOnly(blw, blh, l) == (blw * DS_UNIT) \div l.w

\* lines 260-263: the downsample of a level whose stored one is zero
InferDownsample(blw, blh, l) ==
  (((blh * DS_UNIT) \div l.h) + ((blw * DS_UNIT) \div l.w)) \div 2

\* a variant that leaves level 0 as the backend stored it
FillDownsamples_KeepLevel0(h) ==
  LET blw == IF level_in_range(h, 0) /\ h.error = NULL THEN h.levels[1].w ELSE -1
      blh == IF level_in_range(h, 0) /\ h.error = NULL THEN h.levels[1].h ELSE -1
  IN [h EXCEPT !.levels =
        [i \in DOMAIN h.levels |->
           IF i > h.level_count \/ i = 1 THEN h.levels[i]
           ELSE (IF h.levels[i].downsample = 0
                 THEN [h.levels[i] EXCEPT
                         !.downsample = InferDownsample(blw, blh, h.levels[i])]
                 ELSE h.levels[i])]]

\* blw, blh come from openslide_get_level0_dimensions (lines 392-412)
FillDownsamples(h) ==
  LET blw == IF level_in_range(h, 0) /\ h.error = NULL THEN h.levels[1].w ELSE -1
      blh == IF level_in_range(h, 0) /\ h.error = NULL THEN h.levels[1].h ELSE -1
  IN [h EXCEPT !.levels =
        [i \in DOMAIN h.levels |->
           IF i > h.level_count THEN h.levels[i]
           ELSE IF i = 1
             THEN (IF h.levels[1].downsample = 0
                   THEN [h.levels[1] EXCEPT !.downsample = DS_UNIT]
                   ELSE h.levels[1])
             ELSE (IF h.levels[i].downsample = 0
                   THEN [h.levels[i] EXCEPT
                           !.downsample = InferDownsample(blw, blh, h.levels[i])]
                   ELSE h.levels[i])]]

\* a variant that compares level 1 with level 0 only
DownsamplesOrdered_FirstPair(h) ==
  h.level_count < 2 \/ ~(h.levels[2].downsample < h.levels[1].downsample)

\* lines 266-275: check downsamples
DownsamplesOrdered(h) ==
  \A i \in 2..h.level_count :
    ~(h.levels[i].downsample < h.levels[i - 1].downsample)

\* lines 277-360: the property table and the two sorted name lists
FillProperties(h, file) ==
  LET props == {"openslide.vendor", "openslide.level-count"}
               \cup (IF file.hash THEN {"openslide.quickhash-1"} ELSE {})
               \cup (IF h.icc_profile_size # 0 THEN {"openslide.icc-size"} ELSE {})
  IN [h EXCEPT !.properties = props,
               !.property_names = props,
               !.associated_image_names = {a.name : a \in h.associated_images}]

(***************************************************************************)
(* openslide_close, lines 371-389, and what it releases.                   *)
(***************************************************************************)
NoTeardown ==
  [destroy |-> 0, assoc_destroy |-> 0, cache_destroy |-> 0, freed |-> 0,
   images |-> {}]

\* a variant that calls the backend's destroy without looking at osr->ops
CloseEffects_AlwaysDestroy(h, td) ==
  [destroy       |-> td.destroy + 1,
   assoc_destroy |-> td.assoc_destroy + Cardinality(h.associated_images),
   cache_destroy |-> td.cache_destroy + (IF h.cache THEN 1 ELSE 0),
   freed         |-> td.freed + 1,
   images        |-> td.images \cup {i.name : i \in h.associated_images}]

\* destroy counts the calls of osr->ops->destroy, assoc_destroy those of
\* destroy_associated_image (lines 75-79, run by g_hash_table_unref on each
\* value) and images the images they were made on
CloseEffects(h, td) ==
  [destroy       |-> td.destroy + (IF h.ops THEN 1 ELSE 0),
   assoc_destroy |-> td.assoc_destroy + Cardinality(h.associated_images),
   cache_destroy |-> td.cache_destroy + (IF h.cache THEN 1 ELSE 0),
   freed         |-> td.freed + 1,
   images        |-> td.images \cup {i.name : i \in h.associated_images}]

Idle == [pc |-> "idle"]

\* what openslide_open or openslide_close returned, the entry points it
\* called, the levels the handle under construction held at the return,
\* the detect calls made and the registry index of the format detected
Ret(op, ret, entry, tried, calls) ==
  [op |-> op, ret |-> ret, entry |-> entry, tried |-> tried, calls |-> calls,
   levels |-> <<>>, probed |-> <<>>, format |-> 0]

OpenRet(format, ret, tried, calls) ==
  [Ret("open", ret, NULL, tried, calls)
     EXCEPT !.probed = format.probed, !.format = format.format]

(***************************************************************************)
(* openslide_open, lines 210-368.                                          *)
(***************************************************************************)
openslide_open ==
  /\ life = "unopened"
  /\ LET file == env.file
         format == detect_format(file)
     IN IF ~format.found
        THEN \* not a slide file
             /\ life' = "null"
             /\ osr' = NoHandle
             /\ last' = OpenRet(format, Text(NULL), {}, {"detect"})
             /\ UNCHANGED <<pixman_once, teardown>>
        ELSE
          /\ pixman_once' = "done"
          /\ IF ~env.pixman_works
             THEN /\ osr' = _openslide_propagate_error(NewHandle, MSG_PIXMAN)
                  /\ life' = "open"
                  /\ last' = OpenRet(format, Text("handle"), {MSG_PIXMAN},
                                 {"detect", "g_new0"})
                  /\ UNCHANGED teardown
             ELSE
               LET r == open_backend(file)
                   h1 == BackendPopulate(NewHandle, file)
               IN IF ~r.ok
                  THEN /\ osr' = _openslide_propagate_error(h1, r.err)
                       /\ life' = "open"
                       /\ last' = OpenRet(format, Text("handle"), {r.err},
                                      {"detect", "g_new0", "open"})
                       /\ UNCHANGED teardown
                  ELSE
                    LET h2 == FillDownsamples(h1)
                    IN IF ~DownsamplesOrdered(h2)
                       THEN \* return NULL; the g_autoptr closes the handle
                            /\ osr' = NoHandle
                            /\ life' = "null"
                            /\ teardown' = CloseEffects(h2, teardown)
                            /\ last' =
                                 [OpenRet(format, Text(NULL), {},
                                      {"detect", "g_new0", "open", "close"})
                                    EXCEPT !.levels = h2.levels]
                       ELSE /\ osr' = [FillProperties(h2, file) EXCEPT !.cache = TRUE]
                            /\ life' = "open"
                            /\ last' =
                                 [OpenRet(format, Text("handle"), {},
                                      {"detect", "g_new0", "open"})
                                    EXCEPT !.levels = h2.levels]
                            /\ UNCHANGED teardown
  /\ UNCHANGED <<env, thr, image>>

openslide_close ==
  /\ life = "open"
  \* the caller closes when no call on the handle is in flight
  /\ \A t \in Threads : thr[t].pc \in {"idle", "done"}
  /\ teardown' = CloseEffects(osr, teardown)
  /\ life' = "closed"
  /\ osr' = NoHandle
  /\ last' = Ret("close", Void, NULL, {}, IF osr.ops THEN {"destroy"} ELSE {})
  /\ UNCHANGED <<env, pixman_once, thr, image>>

(***************************************************************************)
(* The read accessors, lines 392-480 and 797-861, 886-898.  Each is a pure *)
(* function of the handle; the action stores what the caller receives.     *)
(***************************************************************************)
openslide_get_level_dimensions(h, level) ==
  IF openslide_get_error(h) # NULL THEN <<-1, -1>>
  ELSE IF ~level_in_range(h, level) THEN <<-1, -1>>
  ELSE <<h.levels[level + 1].w, h.levels[level + 1].h>>

openslide_get_level_count(h) ==
  IF openslide_get_error(h) # NULL THEN -1 ELSE h.level_count

openslide_get_channel_count(h) ==
  IF openslide_get_error(h) # NULL THEN -1 ELSE h.channel_count

openslide_get_timepoint_count(h) ==
  IF openslide_get_error(h) # NULL THEN -1 ELSE h.timepoint_count

openslide_get_zstack_count(h) ==
  IF openslide_get_error(h) # NULL THEN -1 ELSE h.zstack_count

\* a variant of the scan that returns the level it stopped at
RECURSIVE best_level_scan_Stop(_, _, _)
best_level_scan_Stop(h, downsample, i) ==
  IF i < h.level_count
  THEN IF downsample < h.levels[i + 1].downsample
       THEN i
       ELSE best_level_scan_Stop(h, downsample, i + 1)
  ELSE h.level_count - 1

\* a variant of the scan whose comparison is inclusive
RECURSIVE best_level_scan_Inclusive(_, _, _)
best_level_scan_Inclusive(h, downsample, i) ==
  IF i < h.level_count
  THEN IF downsample <= h.levels[i + 1].downsample
       THEN i - 1
       ELSE best_level_scan_Inclusive(h, downsample, i + 1)
  ELSE h.level_count - 1

\* the scan of lines 463-467, from level i
RECURSIVE best_level_scan(_, _, _)
best_level_scan(h, downsample, i) ==
  IF i < h.level_count
  THEN IF downsample < h.levels[i + 1].downsample
       THEN i - 1
       ELSE best_level_scan(h, downsample, i + 1)
  ELSE h.level_count - 1

openslide_get_best_level_for_downsample(h, downsample) ==
  IF openslide_get_error(h) # NULL THEN -1
  ELSE IF downsample < h.levels[1].downsample THEN 0
  ELSE best_level_scan(h, downsample, 1)

\* -1.0 is -DS_UNIT
openslide_get_level_downsample(h, level) ==
  IF openslide_get_error(h) # NULL \/ ~level_in_range(h, level)
  THEN -DS_UNIT
  ELSE h.levels[level + 1].downsample

\* EMPTY_STRING_ARRAY is the empty set of names
openslide_get_property_names(h) ==
  IF openslide_get_error(h) # NULL THEN {} ELSE h.property_names

openslide_get_property_value(h, name) ==
  IF openslide_get_error(h) # NULL THEN NULL
  ELSE IF name \in h.properties THEN "value" ELSE NULL

\* a variant without the error check
openslide_get_icc_profile_size_NoCheck(h) == h.icc_profile_size

openslide_get_icc_profile_size(h) ==
  IF openslide_get_error(h) # NULL THEN -1 ELSE h.icc_profile_size

openslide_get_associated_image_names(h) ==
  IF openslide_get_error(h) # NULL THEN {} ELSE h.associated_image_names

\* g_hash_table_lookup(osr->associated_images, name)
HasAssociated(h, name) == \E a \in h.associated_images : a.name = name
LookupAssociated(h, name) == CHOOSE a \in h.associated_images : a.name = name

openslide_get_associated_image_dimensions(h, name) ==
  IF openslide_get_error(h) # NULL THEN <<-1, -1>>
  ELSE LET img == LookupAssociated(h, name)
       IN IF HasAssociated(h, name) THEN <<img.w, img.h>> ELSE <<-1, -1>>

openslide_get_associated_image_icc_profile_size(h, name) ==
  IF openslide_get_error(h) # NULL THEN -1
  ELSE LET img == LookupAssociated(h, name)
       IN IF ~HasAssociated(h, name) THEN -1 ELSE img.icc_profile_size

\* a thread may start a call when it is not inside one
Free(t) == life = "open" /\ thr[t].pc \in {"idle", "done"}

\* the call returns ret to thread t; the handle is left alone
Return(t, op, arg, ret) ==
  /\ thr' = [thr EXCEPT ![t] =
       [pc |-> "done", op |-> op, arg |-> arg, ret |-> ret,
        entry |-> osr.error, tried |-> {}, calls |-> {}]]
  /\ UNCHANGED <<env, pixman_once, life, osr, last, teardown, image>>

get_level_dimensions(t, level) ==
  Free(t) /\ Return(t, "get_level_dimensions", Num(level),
                    Pair(openslide_get_level_dimensions(osr, level)))

get_level_count(t) ==
  Free(t) /\ Return(t, "get_level_count", NoArg, Num(openslide_get_level_count(osr)))

get_channel_count(t) ==
  Free(t) /\ Return(t, "get_channel_count", NoArg, Num(openslide_get_channel_count(osr)))

get_timepoint_count(t) ==
  Free(t) /\ Return(t, "get_timepoint_count", NoArg,
                    Num(openslide_get_timepoint_count(osr)))

get_zstack_count(t) ==
  Free(t) /\ Return(t, "get_zstack_count", NoArg, Num(openslide_get_zstack_count(osr)))

\* a Ready handle has at least one level (line 458 reads levels[0])
get_best_level_for_downsample(t, downsample) ==
  Free(t) /\ (openslide_get_error(osr) = NULL => osr.level_count > 0)
          /\ Return(t, "get_best_level_for_downsample", Num(downsample),
                    Num(openslide_get_best_level_for_downsample(osr, downsample)))

get_level_downsample(t, level) ==
  Free(t) /\ Return(t, "get_level_downsample", Num(level),
                    Num(openslide_get_level_downsample(osr, level)))

get_property_names(t) ==
  Free(t) /\ Return(t, "get_property_names", NoArg,
                    Names(openslide_get_property_names(osr)))

get_property_value(t, name) ==
  Free(t) /\ Return(t, "get_property_value", Text(name),
                    Text(openslide_get_property_value(osr, name)))

get_icc_profile_size(t) ==
  Free(t) /\ Return(t, "get_icc_profile_size", NoArg,
                    Num(openslide_get_icc_profile_size(osr)))

get_associated_image_names(t) ==
  Free(t) /\ Return(t, "get_associated_image_names", NoArg,
                    Names(openslide_get_associated_image_names(osr)))

get_associated_image_dimensions(t, name) ==
  Free(t) /\ Return(t, "get_associated_image_dimensions", Text(name),
                    Pair(openslide_get_associated_image_dimensions(osr, name)))

get_associated_image_icc_profile_size(t, name) ==
  Free(t) /\ Return(t, "get_associated_image_icc_profile_size", Text(name),
                    Num(openslide_get_associated_image_icc_profile_size(osr, name)))

(***************************************************************************)
(* Region reading.  A caller buffer is abstracted to its content class:    *)
(*   "S"  the caller's stale (non-zero) bytes, never written by the call   *)
(*   "Z"  every byte zero (after memset)                                   *)
(*   "P"  zeroed and then painted into by the backend                      *)
(* The geometry of the sub-tiles is kept exactly.                          *)
(***************************************************************************)
\* lines 547 and 697
NegativeSize(w, h) == w < 0 \/ h < 0

\* line 557
MultiChannel(h) == h.channel_count > 1

\* (h + d - 1) / d and (w + d - 1) / d, lines 582-583 and 753-754
GridRows(h) == CDiv(h + d - 1, d)
GridCols(w) == CDiv(w + d - 1, d)

\* a variant whose destination offset leaves out the sub-tile edge of a row
SubTile_RowOffset(x, y, ds, w, h, row, col) ==
  [sx |-> CDiv(x * DS_UNIT + col * d * ds, DS_UNIT),
   sy |-> CDiv(y * DS_UNIT + row * d * ds, DS_UNIT),
   sw |-> Min(w - col * d, d),
   sh |-> Min(h - row * d, d),
   off |-> w * row + col * d,
   stride |-> w * PIXEL_BYTES_ARGB]

\* lines 585-593: the sub-tile (row, col) of a w x h request at (x, y);
\* off is the offset into dest in pixels and stride is in bytes
SubTile(x, y, ds, w, h, row, col) ==
  [sx |-> CDiv(x * DS_UNIT + col * d * ds, DS_UNIT),
   sy |-> CDiv(y * DS_UNIT + row * d * ds, DS_UNIT),
   sw |-> Min(w - col * d, d),
   sh |-> Min(h - row * d, d),
   off |-> w * row * d + col * d,
   stride |-> w * PIXEL_BYTES_ARGB]

\* a variant that moves the origin but keeps the requested width and height
ClipAndPaint_KeepSize(l, level, x, y, w, h) ==
  LET ds == l.downsample
      tx == IF x < 0 THEN CDiv((-x) * DS_UNIT, ds) ELSE 0
      ty == IF y < 0 THEN CDiv((-y) * DS_UNIT, ds) ELSE 0
  IN [paint |-> w > 0 /\ h > 0, level |-> level,
      x |-> IF x < 0 THEN 0 ELSE x, y |-> IF y < 0 THEN 0 ELSE y,
      w |-> w, h |-> h, tx |-> tx, ty |-> ty]

\* lines 510-531 and 651-671: clip a negative origin; the request handed to
\* paint_region for the level record l, or no call when nothing is left
ClipAndPaint(l, level, x, y, w, h) ==
  LET ds == l.downsample
      tx == IF x < 0 THEN CDiv((-x) * DS_UNIT, ds) ELSE 0
      ty == IF y < 0 THEN CDiv((-y) * DS_UNIT, ds) ELSE 0
      x2 == IF x < 0 THEN 0 ELSE x
      y2 == IF y < 0 THEN 0 ELSE y
      w2 == IF x < 0 THEN w - tx ELSE w
      h2 == IF y < 0 THEN h - ty ELSE h
  IN [paint |-> w2 > 0 /\ h2 > 0, level |-> level, x |-> x2, y |-> y2,
      w |-> w2, h |-> h2, tx |-> tx, ty |-> ty]

NoPaint == [paint |-> FALSE]

\* read_region_area, lines 483-540, up to the backend call
read_region_area(h, x, y, level, w, hh) ==
  IF level_in_range(h, level)
  THEN ClipAndPaint(h.levels[level + 1], level, x, y, w, hh)
  ELSE NoPaint

\* cairo_format_stride_for_width for CAIRO_FORMAT_A8 and CAIRO_FORMAT_RGB16_565
cairo_format_stride_for_width(pixel_bytes, w) ==
  ((((pixel_bytes * 8) * w + 7) \div 8 + 3) \div 4) * 4

\* lines 679-690
openslide_get_level_downsample_gray(h, level) ==
  IF openslide_get_error(h) # NULL THEN -DS_UNIT
  ELSE IF level < 0 \/ level > h.level_count_all - 1 THEN -DS_UNIT
  ELSE h.levels[level + 1].downsample

\* lines 756-766: the sub-tile (row, col) of a gray request; off is the
\* offset added to the uint8_t pointer buf, in bytes, and stride is the
\* area_stride handed to read_region_area_gray, in bytes
GraySubTile(pixel_bytes, x, y, ds, w, h, row, col) ==
  [sx |-> CDiv(x * DS_UNIT + col * d * ds, DS_UNIT),
   sy |-> CDiv(y * DS_UNIT + row * d * ds, DS_UNIT),
   sw |-> Min(w - col * d, d),
   sh |-> Min(h - row * d, d),
   off |-> w * row * d + col * d,
   stride |-> cairo_format_stride_for_width(pixel_bytes, Min(w - col * d, d))]

\* line 642: the only level check of read_region_area_gray
GrayLevelRejected(h, level) == level > h.level_count_all - 1

\* the call of thread t moves to c2 and the handle to h2
Step(t, h2, c2) ==
  /\ osr' = h2
  /\ thr' = [thr EXCEPT ![t] = c2]
  /\ UNCHANGED <<env, pixman_once, life, last, teardown, image>>

\* the call c returns with the caller's buffer holding dest
Done(c, tried, calls, dest) ==
  [pc |-> "done", op |-> c.op, arg |-> c.arg, ret |-> Void, entry |-> c.entry,
   tried |-> c.tried \cup tried, calls |-> c.calls \cup calls, dest |-> dest]

\* one call of read_region_area: where in dest it writes and what it asks
\* of the backend
TileCall(row, col, st, rq) ==
  [row |-> row, col |-> col, sx |-> st.sx, sy |-> st.sy, sw |-> st.sw,
   sh |-> st.sh, off |-> st.off, stride |-> st.stride, rq |-> rq]

\* a region read returns after the sub-tile calls tiles
DoneTiles(c, tried, calls, dest, tiles) ==
  [pc |-> "done", op |-> c.op, arg |-> c.arg, ret |-> Void, entry |-> c.entry,
   tried |-> c.tried \cup tried, calls |-> c.calls \cup calls, dest |-> dest,
   tiles |-> tiles]

Call(op, arg) ==
  [op |-> op, arg |-> arg, entry |-> osr.error, tried |-> {}, calls |-> {}]

RegionArg(pb, x, y, level, w, h) ==
  [pb |-> pb, x |-> x, y |-> y, level |-> level, w |-> w, h |-> h]

\* the next sub-tile in row-major order, or "end"
NextTile(c) ==
  IF c.col + 1 < GridCols(c.arg.w) THEN [c EXCEPT !.col = c.col + 1]
  ELSE IF c.row + 1 < GridRows(c.arg.h) THEN [c EXCEPT !.row = c.row + 1, !.col = 0]
  ELSE [c EXCEPT !.pc = "end"]

(***************************************************************************)
(* openslide_read_region, lines 542-605: the entry up to the loop.         *)
(***************************************************************************)
openslide_read_region_begin(t, x, y, level, w, h) ==
  /\ Free(t)
  /\ LET c == Call("read_region", RegionArg(PIXEL_BYTES_ARGB, x, y, level, w, h))
     IN IF NegativeSize(w, h)
        THEN Step(t, _openslide_propagate_error(osr, MSG_NEGATIVE),
                  DoneTiles(c, {MSG_NEGATIVE}, {}, "S", <<>>))
        ELSE IF MultiChannel(osr)
        THEN Step(t, _openslide_propagate_error(osr, MSG_CHANNEL),
                  DoneTiles(c, {MSG_CHANNEL}, {}, "S", <<>>))
        \* clear the dest, then return if an error occurred
        ELSE IF openslide_get_error(osr) # NULL
        THEN Step(t, osr, DoneTiles(c, {}, {}, "Z", <<>>))
        ELSE IF GridRows(h) = 0 \/ GridCols(w) = 0
        THEN Step(t, osr, DoneTiles(c, {}, {}, "Z", <<>>))
        ELSE Step(t, osr,
                  [pc |-> "area", op |-> c.op, arg |-> c.arg, entry |-> c.entry,
                   tried |-> {}, calls |-> {},
                   ds |-> openslide_get_level_downsample(osr, level),
                   row |-> 0, col |-> 0, dest |-> "Z", tiles |-> <<>>])

\* one iteration of the loop of lines 582-604: read_region_area on the
\* current sub-tile, with the backend's and the surface's verdicts
openslide_read_region_tile(t, paint_ok, cairo_ok) ==
  /\ life = "open"
  /\ thr[t].pc = "area"
  /\ thr[t].op = "read_region"
  /\ LET c == thr[t]
         a == c.arg
         st == SubTile(a.x, a.y, c.ds, a.w, a.h, c.row, c.col)
         rq == read_region_area(osr, st.sx, st.sy, a.level, st.sw, st.sh)
         ok == (rq.paint => paint_ok) /\ cairo_ok
         msg == IF rq.paint /\ ~paint_ok THEN MSG_PAINT ELSE MSG_CAIRO
         calls == IF rq.paint THEN {"paint_region"} ELSE {}
         n == NextTile(c)
         tiles == Append(c.tiles, TileCall(c.row, c.col, st, rq))
     IN IF ~ok
        THEN \* propagate, then ensure we don't return a partial result
             Step(t, _openslide_propagate_error(osr, msg),
                  DoneTiles(c, {msg}, calls, "Z", tiles))
        ELSE IF n.pc = "end"
        THEN Step(t, osr, DoneTiles(c, {}, calls,
                                    IF rq.paint THEN "P" ELSE c.dest, tiles))
        ELSE Step(t, osr, [n EXCEPT !.calls = @ \cup calls,
                                    !.dest = IF rq.paint THEN "P" ELSE @,
                                    !.tiles = tiles])

(***************************************************************************)
(* openslide_read_region_gray, lines 693-781, reached from                 *)
(* openslide_read_region_gray8 and _gray16 (pixel_bytes 1 and 2).  buf is  *)
(* dest itself when the row stride is tight, else the intermediate buf_cr. *)
(***************************************************************************)
\* line 724
TightStride(pixel_bytes, w) ==
  cairo_format_stride_for_width(pixel_bytes, w) = w * pixel_bytes

\* lines 741-743 and 767-770: memset(buf, 0, ...) reaches the caller's dest
\* only when buf is dest
ZeroBuf(c) ==
  IF c.tight THEN [c EXCEPT !.buf = "Z", !.dest = "Z"] ELSE [c EXCEPT !.buf = "Z"]

PaintBuf(c) ==
  IF c.tight THEN [c EXCEPT !.buf = "P", !.dest = "P"] ELSE [c EXCEPT !.buf = "P"]

\* lines 776-780: remove stride padding into dest
DelRowPadding(c) == IF c.tight THEN c ELSE [c EXCEPT !.dest = c.buf]

\* g_try_malloc(0) returns NULL
openslide_read_region_gray_begin(t, pixel_bytes, x, y, level, w, h, alloc_ok) ==
  /\ Free(t)
  /\ pixel_bytes \in {PIXEL_BYTES_GRAY8, PIXEL_BYTES_GRAY16}
  /\ LET c == Call("read_region_gray", RegionArg(pixel_bytes, x, y, level, w, h))
     IN IF NegativeSize(w, h)
        THEN Step(t, _openslide_propagate_error(osr, MSG_NEGATIVE),
                  DoneTiles(c, {MSG_NEGATIVE}, {}, "S", <<>>))
        ELSE
          LET stride == cairo_format_stride_for_width(pixel_bytes, w)
              len == h * stride
              tight == TightStride(pixel_bytes, w)
              c1 == [pc |-> "area", op |-> c.op, arg |-> c.arg, entry |-> c.entry,
                     tried |-> {}, calls |-> {},
                     ds |-> openslide_get_level_downsample_gray(osr, level),
                     row |-> 0, col |-> 0, dest |-> "S", buf |-> "S",
                     tight |-> tight, tiles |-> <<>>]
              c2 == ZeroBuf(c1)
          IN IF ~tight /\ (len = 0 \/ ~alloc_ok)
             THEN Step(t, _openslide_propagate_error(osr, MSG_ALLOC),
                       DoneTiles(c, {MSG_ALLOC}, {}, "S", <<>>))
             \* now that it's cleared, return if an error occurred
             ELSE IF openslide_get_error(osr) # NULL
             THEN Step(t, osr, DoneTiles(c, {}, {}, c2.dest, <<>>))
             ELSE IF GridRows(h) = 0 \/ GridCols(w) = 0
             THEN Step(t, osr, DoneTiles(c, {}, {}, DelRowPadding(c2).dest, <<>>))
             ELSE Step(t, osr, c2)

\* read_region_area_gray, lines 607-677, on the current sub-tile.  A negative
\* level passes line 642 and line 649 reads levels[level] outside the array:
\* the process may die there, or go on with whatever that memory holds.
openslide_read_region_gray_tile(t, paint_ok, cairo_ok, survives) ==
  /\ life = "open"
  /\ thr[t].pc = "area"
  /\ thr[t].op = "read_region_gray"
  /\ LET c == thr[t]
         a == c.arg
         st == GraySubTile(a.pb, a.x, a.y, c.ds, a.w, a.h, c.row, c.col)
         n == NextTile(c)
     IN IF GrayLevelRejected(osr, a.level)
        THEN \* the error is stored inside; the caller propagates a NULL GError
             Step(t, _openslide_propagate_error(
                       _openslide_propagate_error(osr, MSG_LEVEL), NULL),
                  DoneTiles(c, {MSG_LEVEL}, {}, ZeroBuf(c).dest, c.tiles))
        ELSE IF a.level < 0 /\ ~survives
        THEN /\ life' = "crashed"
             /\ thr' = [thr EXCEPT ![t] = [c EXCEPT !.calls = @ \cup {"levels[oob]"}]]
             /\ UNCHANGED <<env, pixman_once, osr, last, teardown, image>>
        ELSE
          LET rq == IF a.level < 0 THEN [paint |-> TRUE]
                    ELSE ClipAndPaint(osr.levels[a.level + 1], a.level,
                                      st.sx, st.sy, st.sw, st.sh)
              ok == (rq.paint => paint_ok) /\ cairo_ok
              msg == IF rq.paint /\ ~paint_ok THEN MSG_PAINT ELSE MSG_CAIRO
              calls == (IF rq.paint THEN {"paint_region"} ELSE {})
                       \cup (IF a.level < 0 THEN {"levels[oob]"} ELSE {})
              c1 == IF rq.paint THEN PaintBuf(c) ELSE c
              tiles == Append(c.tiles, TileCall(c.row, c.col, st, rq))
          IN IF ~ok
             THEN Step(t, _openslide_propagate_error(osr, msg),
                       DoneTiles(c, {msg}, calls, ZeroBuf(c1).dest, tiles))
             ELSE IF n.pc = "end"
             THEN Step(t, osr, DoneTiles(c, {}, calls, DelRowPadding(c1).dest,
                                         tiles))
             ELSE Step(t, osr, [n EXCEPT !.calls = @ \cup calls,
                                         !.dest = c1.dest, !.buf = c1.buf,
                                         !.tiles = tiles])

(***************************************************************************)
(* openslide_read_icc_profile, lines 821-836.                              *)
(***************************************************************************)
\* memset(dest, 0, size) on a buffer of size bytes
Memset(size) == IF size > 0 THEN "Z" ELSE "S"

openslide_read_icc_profile_begin(t) ==
  /\ Free(t)
  /\ LET c == Call("read_icc_profile", NoArg)
     IN IF openslide_get_error(osr) # NULL
        THEN Step(t, osr, Done(c, {}, {}, Memset(osr.icc_profile_size)))
        ELSE IF osr.icc_profile_size = 0
        THEN Step(t, osr, Done(c, {}, {}, "S"))
        ELSE Step(t, osr, [pc |-> "icc", op |-> c.op, arg |-> c.arg,
                           entry |-> c.entry, tried |-> {}, calls |-> {}])

\* a variant that stores the failure with a plain assignment
openslide_read_icc_profile_return_Store(t, ok) ==
  /\ life = "open"
  /\ thr[t].pc = "icc"
  /\ IF ok
     THEN Step(t, osr, Done(thr[t], {}, {"read_icc_profile"}, "P"))
     ELSE Step(t, [osr EXCEPT !.error = MSG_ICC],
               Done(thr[t], {MSG_ICC}, {"read_icc_profile"},
                    Memset(osr.icc_profile_size)))

\* osr->ops->read_icc_profile returns
openslide_read_icc_profile_return(t, ok) ==
  /\ life = "open"
  /\ thr[t].pc = "icc"
  /\ IF ok
     THEN Step(t, osr, Done(thr[t], {}, {"read_icc_profile"}, "P"))
     ELSE Step(t, _openslide_propagate_error(osr, MSG_ICC),
               Done(thr[t], {MSG_ICC}, {"read_icc_profile"},
                    Memset(osr.icc_profile_size)))

(***************************************************************************)
(* openslide_read_associated_image, lines 863-884, and                     *)
(* openslide_read_associated_image_icc_profile, lines 900-923.             *)
(***************************************************************************)
openslide_read_associated_image_begin(t, name) ==
  /\ Free(t)
  /\ LET c == Call("read_associated_image", Text(name))
         img == LookupAssociated(osr, name)
     IN IF ~HasAssociated(osr, name)
        THEN Step(t, osr, Done(c, {}, {}, "S"))
        ELSE IF openslide_get_error(osr) # NULL
        THEN Step(t, osr, Done(c, {}, {}, Memset(img.w * img.h * 4)))
        ELSE Step(t, osr, [pc |-> "argb", op |-> c.op, arg |-> c.arg,
                           entry |-> c.entry, tried |-> {}, calls |-> {}])

\* img->ops->get_argb_data returns
openslide_read_associated_image_return(t, ok) ==
  /\ life = "open"
  /\ thr[t].pc = "argb"
  /\ LET img == LookupAssociated(osr, thr[t].arg.s)
     IN IF ok
        THEN Step(t, osr, Done(thr[t], {}, {"get_argb_data"}, "P"))
        ELSE Step(t, _openslide_propagate_error(osr, MSG_ARGB),
                  Done(thr[t], {MSG_ARGB}, {"get_argb_data"},
                       Memset(img.w * img.h * 4)))

openslide_read_associated_image_icc_profile_begin(t, name) ==
  /\ Free(t)
  /\ LET c == Call("read_associated_image_icc_profile", Text(name))
         img == LookupAssociated(osr, name)
     IN IF ~HasAssociated(osr, name)
        THEN Step(t, osr, Done(c, {}, {}, "S"))
        ELSE IF openslide_get_error(osr) # NULL
        THEN Step(t, osr, Done(c, {}, {}, Memset(img.icc_profile_size)))
        ELSE IF img.icc_profile_size = 0
        THEN Step(t, osr, Done(c, {}, {}, "S"))
        ELSE Step(t, osr, [pc |-> "assoc_icc", op |-> c.op, arg |-> c.arg,
                           entry |-> c.entry, tried |-> {}, calls |-> {}])

\* img->ops->read_icc_profile returns
openslide_read_associated_image_icc_profile_return(t, ok) ==
  /\ life = "open"
  /\ thr[t].pc = "assoc_icc"
  /\ LET img == LookupAssociated(osr, thr[t].arg.s)
     IN IF ok
        THEN Step(t, osr, Done(thr[t], {}, {"assoc.read_icc_profile"}, "P"))
        ELSE Step(t, _openslide_propagate_error(osr, MSG_ICC),
                  Done(thr[t], {MSG_ICC}, {"assoc.read_icc_profile"},
                       Memset(img.icc_profile_size)))

(***************************************************************************)
(* openslide-image.c, openslide-image-ssse3.c and openslide-image-avx2.c:  *)
(* the image kernels.  A buffer is a sequence of bytes, byte i of the C    *)
(* buffer being element i + 1.  A kernel is given src and the caller's dst *)
(* and returns what dst holds afterwards, with fault "overrun" when it read *)
(* or wrote outside a buffer, "trap" when an instruction of it traps, and  *)
(* "no" otherwise.                                                         *)
(***************************************************************************)
\* size_t arithmetic wraps; its 64 bits are narrowed to 16 here
SizeT(n) == n % (2 ^ 16)

\* what a byte of a buffer holds before anything was written to it
Unwritten == 256

Fresh(n) == [i \in 1..n |-> Unwritten]

Result(dst, fault) == [dst |-> dst, fault |-> fault]

\* n bytes at byte offset from lie inside a buffer of len bytes
InBounds(len, from, n) == from + n <= len

Load(src, from, n) == [i \in 1..n |-> src[from + i]]

Store(dst, from, v) ==
  [i \in 1..Len(dst) |->
     IF i > from /\ i <= from + Len(v) THEN v[i - from] ELSE dst[i]]

\* a | b on bytes
RECURSIVE Or8(_, _)
Or8(a, b) ==
  IF a = 0 THEN b
  ELSE IF b = 0 THEN a
  ELSE (IF a % 2 = 1 \/ b % 2 = 1 THEN 1 ELSE 0) + 2 * Or8(a \div 2, b \div 2)

\* pshufb: per 16-byte lane, a control byte with its top bit set gives zero
_mm_shuffle_epi8(a, mask) ==
  [i \in 1..Len(a) |->
     IF mask[i] >= 128 THEN 0
     ELSE a[((i - 1) \div 16) * 16 + (mask[i] % 16) + 1]]

_mm_or_si128(a, b) == [i \in 1..Len(a) |-> Or8(a[i], b[i])]

\* punpcklbw and punpckhbw on one 16-byte lane
_mm_unpacklo_epi8(a, b) ==
  [i \in 1..16 |-> IF i % 2 = 1 THEN a[(i + 1) \div 2] ELSE b[i \div 2]]
_mm_unpackhi_epi8(a, b) ==
  [i \in 1..16 |-> IF i % 2 = 1 THEN a[8 + (i + 1) \div 2] ELSE b[8 + i \div 2]]

\* the 256-bit forms work on the two 128-bit lanes separately
_mm256_unpacklo_epi8(a, b) ==
  _mm_unpacklo_epi8(Load(a, 0, 16), Load(b, 0, 16))
    \o _mm_unpacklo_epi8(Load(a, 16, 16), Load(b, 16, 16))
_mm256_unpackhi_epi8(a, b) ==
  _mm_unpackhi_epi8(Load(a, 0, 16), Load(b, 0, 16))
    \o _mm_unpackhi_epi8(Load(a, 16, 16), Load(b, 16, 16))

\* vperm2i128: each half of the result is lane (sel % 4) of a followed by b
Lane128(a, b, sel) == Load(a \o b, (sel % 4) * 16, 16)
_mm256_permute2x128_si256(a, b, imm) ==
  Lane128(a, b, imm % 16) \o Lane128(a, b, imm \div 16)

\* vpermq: 64-bit element k of the result is element (imm >> 2k) & 3 of a
_mm256_permute4x64_epi64(a, imm) ==
  [i \in 1..32 |->
     a[((imm \div (4 ^ ((i - 1) \div 8))) % 4) * 8 + ((i - 1) % 8) + 1]]

\* psrlw: each little-endian 16-bit element shifted right by count
_mm_srli_epi16(a, count) ==
  [i \in 1..Len(a) |->
     LET lo == IF i % 2 = 1 THEN i ELSE i - 1
         v == (a[lo] + 256 * a[lo + 1]) \div (2 ^ count)
     IN IF i % 2 = 1 THEN v % 256 ELSE v \div 256]

\* pcmpgtb against zero: the bytes are compared as signed
_mm_cmpgt_epi8_zero(a) ==
  [i \in 1..Len(a) |-> IF a[i] >= 1 /\ a[i] <= 127 THEN 255 ELSE 0]

(***************************************************************************)
(* BGR24 to ARGB32.  A uint32_t pixel is kept as its four bytes in memory  *)
(* (little-endian): blue, green, red, alpha.                               *)
(***************************************************************************)
\* openslide-image.h, lines 10-12, on the three bytes at offset i
BGR24TOARGB32(src, i) == <<src[i + 1], src[i + 2], src[i + 3], 255>>

\* the loop "for (i = ...; i < src_len; i += 3, src += 3) *dst++ = ..." with
\* src advanced to byte s and dst to byte o
RECURSIVE bgr24_loop(_, _, _, _, _)
bgr24_loop(src, i, s, dst, o) ==
  IF i >= Len(src) THEN Result(dst, "no")
  ELSE IF ~InBounds(Len(src), s, 3) \/ ~InBounds(Len(dst), o, 4)
  THEN Result(dst, "overrun")
  ELSE bgr24_loop(src, i + 3, s + 3, Store(dst, o, BGR24TOARGB32(src, s)), o + 4)

\* openslide-image.c, lines 38-44
bgr24_to_argb32_generic(src, dst) == bgr24_loop(src, 0, 0, dst, 0)

shuffle_bgr24 == <<0, 1, 2, 255, 3, 4, 5, 255, 6, 7, 8, 255, 9, 10, 11, 255>>
opaque == <<0, 0, 0, 255, 0, 0, 0, 255, 0, 0, 0, 255, 0, 0, 0, 255>>

\* openslide-image-ssse3.c, lines 25-37: iteration n of the vector loop and
\* the scalar loop after it
RECURSIVE bgr24_ssse3_loop(_, _, _, _)
bgr24_ssse3_loop(src, dst, n, mm_len) ==
  LET mm_step == 12
  IN IF n >= mm_len
     THEN bgr24_loop(src, SizeT(mm_len * mm_step), n * mm_step, dst, n * 16)
     ELSE IF ~InBounds(Len(src), n * mm_step, 16)
             \/ ~InBounds(Len(dst), n * 16, 16)
     THEN Result(dst, "overrun")
     ELSE LET bgr == Load(src, n * mm_step, 16)
              argb == _mm_shuffle_epi8(bgr, shuffle_bgr24)
              out == _mm_or_si128(argb, opaque)
          IN bgr24_ssse3_loop(src, Store(dst, n * 16, out), n + 1, mm_len)

\* openslide-image-ssse3.c, lines 8-38
_openslide_bgr24_to_argb32_ssse3(src, dst) ==
  bgr24_ssse3_loop(src, dst, 0, SizeT(Len(src) \div 12 - 1))

\* openslide-image-avx2.c, lines 24-41
RECURSIVE bgr24_avx2_loop(_, _, _, _)
bgr24_avx2_loop(src, dst, n, mm_len) ==
  LET mm_step == 24
  IN IF n >= mm_len
     THEN bgr24_loop(src, SizeT(mm_len * mm_step), n * mm_step, dst, n * 32)
     ELSE IF ~InBounds(Len(src), n * mm_step + 12, 16)
             \/ ~InBounds(Len(dst), n * 32, 32)
     THEN Result(dst, "overrun")
     ELSE LET bgr == Load(src, n * mm_step, 16) \o Load(src, n * mm_step + 12, 16)
              argb == _mm_shuffle_epi8(bgr, shuffle_bgr24 \o shuffle_bgr24)
              out == _mm_or_si128(argb, opaque \o opaque)
          IN bgr24_avx2_loop(src, Store(dst, n * 32, out), n + 1, mm_len)

\* openslide-image-avx2.c, lines 8-42
_openslide_bgr24_to_argb32_avx2(src, dst) ==
  bgr24_avx2_loop(src, dst, 0, SizeT(Len(src) \div 24 - 1))

(***************************************************************************)
(* Restore of the czi zstd1 byte planes: src holds the low bytes of the    *)
(* 16-bit samples in its first half and the high bytes in its second.      *)
(***************************************************************************)
\* the loop "*p++ = *slo++; *p++ = *shi++" run count times, with slo at byte
\* lo of src, shi at byte hi and p at byte o of dst
RECURSIVE restore_loop(_, _, _, _, _, _)
restore_loop(src, count, lo, hi, dst, o) ==
  IF count = 0 THEN Result(dst, "no")
  ELSE IF ~InBounds(Len(src), hi, 1) \/ ~InBounds(Len(dst), o, 2)
  THEN Result(dst, "overrun")
  ELSE restore_loop(src, count - 1, lo + 1, hi + 1,
                    Store(dst, o, <<src[lo + 1], src[hi + 1]>>), o + 2)

\* openslide-image.c, lines 93-103
restore_czi_zstd1_generic(src, dst) ==
  LET half_len == Len(src) \div 2
  IN restore_loop(src, half_len, 0, half_len, dst, 0)

\* openslide-image-ssse3.c, lines 50-76
RECURSIVE restore_sse3_loop(_, _, _, _)
restore_sse3_loop(src, dst, i, len_mm) ==
  LET mm_step == 16
      half_len == Len(src) \div 2
  IN IF i >= len_mm
     THEN restore_loop(src, half_len % mm_step, i * mm_step,
                       half_len + i * mm_step, dst, 2 * i * mm_step)
     ELSE IF ~InBounds(Len(src), half_len + i * mm_step, mm_step)
             \/ ~InBounds(Len(dst), 2 * i * mm_step, 2 * mm_step)
     THEN Result(dst, "overrun")
     ELSE LET vlo == Load(src, i * mm_step, mm_step)
              vhi == Load(src, half_len + i * mm_step, mm_step)
              out == _mm_unpacklo_epi8(vlo, vhi) \o _mm_unpackhi_epi8(vlo, vhi)
          IN restore_sse3_loop(src, Store(dst, 2 * i * mm_step, out), i + 1,
                               len_mm)

\* openslide-image-ssse3.c, lines 40-77
_openslide_restore_czi_zstd1_sse3(src, dst) ==
  restore_sse3_loop(src, dst, 0, (Len(src) \div 2) \div 16)

\* openslide-image-avx2.c, lines 55-80
RECURSIVE restore_avx2_loop(_, _, _, _)
restore_avx2_loop(src, dst, i, len_mm) ==
  LET mm_step == 32
      half_len == Len(src) \div 2
  IN IF i >= len_mm
     THEN restore_loop(src, half_len % mm_step, i * mm_step,
                       half_len + i * mm_step, dst, 2 * i * mm_step)
     ELSE IF ~InBounds(Len(src), half_len + i * mm_step, mm_step)
             \/ ~InBounds(Len(dst), 2 * i * mm_step, 2 * mm_step)
     THEN Result(dst, "overrun")
     ELSE LET vlo == Load(src, i * mm_step, mm_step)
              vhi == Load(src, half_len + i * mm_step, mm_step)
              tmp1 == _mm256_unpacklo_epi8(vlo, vhi)
              tmp2 == _mm256_unpackhi_epi8(vlo, vhi)
              out == _mm256_permute2x128_si256(tmp1, tmp2, 32)
                       \o _mm256_permute2x128_si256(tmp1, tmp2, 49)
          IN restore_avx2_loop(src, Store(dst, 2 * i * mm_step, out), i + 1,
                               len_mm)

\* a variant that stores the unpacked registers without the lane permutes
RECURSIVE restore_avx2_loop_NoPermute(_, _, _, _)
restore_avx2_loop_NoPermute(src, dst, i, len_mm) ==
  LET mm_step == 32
      half_len == Len(src) \div 2
  IN IF i >= len_mm
     THEN restore_loop(src, half_len % mm_step, i * mm_step,
                       half_len + i * mm_step, dst, 2 * i * mm_step)
     ELSE LET vlo == Load(src, i * mm_step, mm_step)
              vhi == Load(src, half_len + i * mm_step, mm_step)
              out == _mm256_unpacklo_epi8(vlo, vhi)
                       \o _mm256_unpackhi_epi8(vlo, vhi)
          IN restore_avx2_loop_NoPermute(src, Store(dst, 2 * i * mm_step, out),
                                         i + 1, len_mm)

_openslide_restore_czi_zstd1_avx2_NoPermute(src, dst) ==
  restore_avx2_loop_NoPermute(src, dst, 0, (Len(src) \div 2) \div 32)

\* openslide-image-avx2.c, lines 44-81
_openslide_restore_czi_zstd1_avx2(src, dst) ==
  restore_avx2_loop(src, dst, 0, (Len(src) \div 2) \div 32)

(***************************************************************************)
(* Gray16 to gray8.                                                        *)
(***************************************************************************)
\* openslide-image.c, lines 128-135, on the sample at byte offset s
gray16togray8(src, s, ns) ==
  LET v == (src[s + 1] + 256 * src[s + 2]) \div (2 ^ ns)
  IN IF v > 255 THEN 255 ELSE v

\* the loop "while (i < src_len) { *dst++ = gray16togray8(src, nshift); ... }"
RECURSIVE gray16_loop(_, _, _, _, _, _)
gray16_loop(src, i, s, nshift, dst, o) ==
  IF i >= Len(src) THEN Result(dst, "no")
  ELSE IF ~InBounds(Len(src), s, 2) \/ ~InBounds(Len(dst), o, 1)
  THEN Result(dst, "overrun")
  ELSE gray16_loop(src, i + 2, s + 2, nshift,
                   Store(dst, o, <<gray16togray8(src, s, nshift)>>), o + 1)

\* openslide-image.c, lines 137-146
gray16_to_gray8_generic(src, pixel_real_bits, dst) ==
  gray16_loop(src, 0, 0, pixel_real_bits - 8, dst, 0)

hi8 == <<1, 3, 5, 7, 9, 11, 13, 15, 255, 255, 255, 255, 255, 255, 255, 255>>
lo8 == <<0, 2, 4, 6, 8, 10, 12, 14, 255, 255, 255, 255, 255, 255, 255, 255>>

\* openslide-image-ssse3.c, lines 95-120.  movdqa traps on a source that
\* is not 16-byte aligned, pshufb on a CPU without SSSE3.
RECURSIVE gray16_sse2_loop(_, _, _, _, _, _)
gray16_sse2_loop(src, traps, nshift, dst, n, mm_len) ==
  LET mm_step == 16
  IN IF n >= mm_len
     THEN gray16_loop(src, SizeT(mm_len * mm_step), n * mm_step, nshift, dst,
                      n * 8)
     ELSE IF ~InBounds(Len(src), n * mm_step, mm_step)
             \/ ~InBounds(Len(dst), n * 8, 16)
     THEN Result(dst, "overrun")
     ELSE IF traps
     THEN Result(dst, "trap")
     ELSE LET gray16 == Load(src, n * mm_step, mm_step)
              tmp2 == _mm_srli_epi16(gray16, nshift)
              gray8 == _mm_shuffle_epi8(tmp2, lo8)
              tmp1 == _mm_shuffle_epi8(tmp2, hi8)
              out == _mm_or_si128(_mm_cmpgt_epi8_zero(tmp1), gray8)
          IN gray16_sse2_loop(src, traps, nshift, Store(dst, n * 8, out), n + 1,
                              mm_len)

\* openslide-image-ssse3.c, lines 79-121
_openslide_gray16_to_gray8_sse2(src, traps, pixel_real_bits, dst) ==
  gray16_sse2_loop(src, traps, pixel_real_bits - 8, dst, 0,
                   SizeT(Len(src) \div 16 - 1))

\* openslide-image-avx2.c, lines 100-127
RECURSIVE gray16_avx2_loop(_, _, _, _, _)
gray16_avx2_loop(src, nshift, dst, n, mm_len) ==
  LET mm_step == 32
  IN IF n >= mm_len
     THEN gray16_loop(src, SizeT(mm_len * mm_step), n * mm_step, nshift, dst,
                      n * 16)
     ELSE IF ~InBounds(Len(src), n * mm_step, mm_step)
             \/ ~InBounds(Len(dst), n * 16, 32)
     THEN Result(dst, "overrun")
     ELSE LET tmp2 == _mm_srli_epi16(Load(src, n * mm_step, mm_step), nshift)
              gray8 == _mm_shuffle_epi8(tmp2, lo8 \o lo8)
              tmp1 == _mm_shuffle_epi8(tmp2, hi8 \o hi8)
              sat == _mm_or_si128(_mm_cmpgt_epi8_zero(tmp1), gray8)
              out == _mm256_permute4x64_epi64(sat, 8)
          IN gray16_avx2_loop(src, nshift, Store(dst, n * 16, out), n + 1, mm_len)

\* openslide-image-avx2.c, lines 83-128
_openslide_gray16_to_gray8_avx2(src, pixel_real_bits, dst) ==
  gray16_avx2_loop(src, pixel_real_bits - 8, dst, 0, SizeT(Len(src) \div 32 - 1))

(***************************************************************************)
(* Calls of the kernels through their call targets, and the dispatchers of *)
(* openslide-image.c.  env.build holds the USE_ macros of the build and    *)
(* env.cpu what __builtin_cpu_supports reports.                            *)
(***************************************************************************)
\* the bodies of the three dispatchers: lines 49-71, 105-126 and 187-207
bgr24_to_argb32_dispatch(e) ==
  IF "USE_AVX2" \in e.build /\ "avx2" \in e.cpu THEN "avx2"
  ELSE IF "USE_SSSE3" \in e.build /\ "ssse3" \in e.cpu THEN "ssse3"
  ELSE "generic"

restore_czi_zstd1_dispatch(e) ==
  IF "USE_AVX2" \in e.build /\ "avx2" \in e.cpu THEN "avx2"
  ELSE IF "USE_SSSE3" \in e.build /\ "ssse3" \in e.cpu THEN "sse3"
  ELSE "generic"

gray16_to_gray8_dispatch(e) ==
  IF "USE_AVX2" \in e.build /\ "avx2" \in e.cpu THEN "avx2"
  ELSE IF "USE_SSSE3" \in e.build /\ "sse3" \in e.cpu THEN "sse2"
  ELSE "generic"

Dispatch(kind, e) ==
  IF kind = "bgr24" THEN bgr24_to_argb32_dispatch(e)
  ELSE IF kind = "restore" THEN restore_czi_zstd1_dispatch(e)
  ELSE gray16_to_gray8_dispatch(e)

\* the buffers of a call: src, its real bit depth (gray16 only) and whether
\* src lies on a 16-byte boundary
ImageArg(src, bits, aligned) == [src |-> src, bits |-> bits, aligned |-> aligned]

\* the instruction set extensions beyond the x86-64 baseline that the
\* intrinsics of an implementation need: _mm_lddqu_si128 is SSE3,
\* _mm_shuffle_epi8 is SSSE3, the _mm256_ integer intrinsics are AVX2
Extensions(kind, target) ==
  IF target = "avx2" THEN {"avx2"}
  ELSE IF kind = "bgr24" /\ target = "ssse3" THEN {"sse3", "ssse3"}
  ELSE IF kind = "restore" /\ target = "sse3" THEN {"sse3"}
  ELSE IF kind = "gray16" /\ target = "sse2" THEN {"ssse3"}
  ELSE {}

\* the implementation target of kind run on the buffers a, dst being as
\* long as the output of src needs
RunKernel(kind, target, a, e) ==
  IF kind = "bgr24"
  THEN LET dst == Fresh((Len(a.src) \div 3) * 4)
       IN IF target = "avx2" THEN _openslide_bgr24_to_argb32_avx2(a.src, dst)
          ELSE IF target = "ssse3"
          THEN _openslide_bgr24_to_argb32_ssse3(a.src, dst)
          ELSE bgr24_to_argb32_generic(a.src, dst)
  ELSE IF kind = "restore"
  THEN LET dst == Fresh((Len(a.src) \div 2) * 2)
       IN IF target = "avx2" THEN _openslide_restore_czi_zstd1_avx2(a.src, dst)
          ELSE IF target = "sse3"
          THEN _openslide_restore_czi_zstd1_sse3(a.src, dst)
          ELSE restore_czi_zstd1_generic(a.src, dst)
  ELSE LET dst == Fresh(Len(a.src) \div 2)
       IN IF target = "avx2"
          THEN _openslide_gray16_to_gray8_avx2(a.src, a.bits, dst)
          ELSE IF target = "sse2"
          THEN _openslide_gray16_to_gray8_sse2(
                 a.src, ~a.aligned \/ "ssse3" \notin e.cpu, a.bits, dst)
          ELSE gray16_to_gray8_generic(a.src, a.bits, dst)

\* thread t calls (*_openslide_...)(src, src_len, ..., dst): it loads the
\* call target of the kind
image_call(t, kind, src, bits, aligned) ==
  /\ life # "crashed"
  /\ thr[t].pc \in {"idle", "done"}
  /\ thr' = [thr EXCEPT ![t] =
               [pc |-> IF image[kind] = "dispatch" THEN "dispatch" ELSE "kernel",
                op |-> kind, arg |-> ImageArg(src, bits, aligned),
                target |-> image[kind]]]
  /\ UNCHANGED <<env, pixman_once, life, osr, last, teardown, image>>

\* the dispatcher stores the implementation it chose; the BGR24 and restore
\* dispatchers then call it by name, the gray16 one through the call target
image_dispatch(t) ==
  /\ life # "crashed"
  /\ thr[t].pc = "dispatch"
  /\ LET kind == thr[t].op
         chosen == Dispatch(kind, env)
     IN /\ image' = [image EXCEPT ![kind] = chosen]
        /\ thr' = [thr EXCEPT ![t] =
                     IF kind = "gray16" THEN [@ EXCEPT !.pc = "recall"]
                     ELSE [@ EXCEPT !.pc = "kernel", !.target = chosen]]
  /\ UNCHANGED <<env, pixman_once, life, osr, last, teardown>>

\* lines 192, 199 and 205: the gray16 dispatcher loads the call target again
image_recall(t) ==
  /\ life # "crashed"
  /\ thr[t].pc = "recall"
  /\ thr' = [thr EXCEPT ![t] = [@ EXCEPT !.pc = "kernel",
                                        !.target = image[thr[t].op]]]
  /\ UNCHANGED <<env, pixman_once, life, osr, last, teardown, image>>

\* the implementation runs.  An access outside the buffers either kills the
\* process or goes unnoticed; a trapping instruction kills it.
image_run(t, survives) ==
  /\ life # "crashed"
  /\ thr[t].pc = "kernel"
  /\ LET c == thr[t]
         r == RunKernel(c.op, c.target, c.arg, env)
     IN IF r.fault = "no" \/ (r.fault = "overrun" /\ survives)
        THEN /\ thr' = [thr EXCEPT ![t] =
                          [pc |-> "done", op |-> c.op, arg |-> c.arg,
                           target |-> c.target, dst |-> r.dst,
                           fault |-> r.fault]]
             /\ UNCHANGED life
        ELSE /\ thr' = [thr EXCEPT ![t] =
                          [pc |-> "fault", op |-> c.op, arg |-> c.arg,
                           target |-> c.target, dst |-> r.dst,
                           fault |-> r.fault]]
             /\ life' = "crashed"
  /\ UNCHANGED <<env, pixman_once, osr, last, teardown, image>>

(***************************************************************************)
(* openslide-decode-jxr.c: the JPEG XR decoder glue.  jxrlib is not among  *)
(* the sources: each call into it is given by the status it returns, and a *)
(* factory call that fails leaves the caller's pointer as it was.          *)
(***************************************************************************)
\* msgs[], lines 38-57, with the ERR values of jxrlib; entry k of the C
\* array is element k + 1, the last one is the {0, NULL} terminator
msgs ==
  <<[id |-> -1, msg |-> "WMP_errFail"],
    [id |-> -2, msg |-> "WMP_errNotYetImplemented"],
    [id |-> -3, msg |-> "WMP_errAbstractMethod"],
    [id |-> -101, msg |-> "WMP_errOutOfMemory"],
    [id |-> -102, msg |-> "WMP_errFileIO"],
    [id |-> -103, msg |-> "WMP_errBufferOverflow"],
    [id |-> -104, msg |-> "WMP_errInvalidParameter"],
    [id |-> -105, msg |-> "WMP_errInvalidArgument"],
    [id |-> -106, msg |-> "WMP_errUnsupportedFormat"],
    [id |-> -107, msg |-> "WMP_errIncorrectCodecVersion"],
    [id |-> -108, msg |-> "WMP_errIndexNotFound"],
    [id |-> -109, msg |-> "WMP_errOutOfSequence"],
    [id |-> -110, msg |-> "WMP_errNotInitialized"],
    [id |-> -111, msg |-> "WMP_errMustBeMultipleOf16LinesUntilLastCall"],
    [id |-> -112, msg |-> "WMP_errPlanarAlphaBandedEncRequiresTempFile"],
    [id |-> -113, msg |-> "WMP_errAlphaModeCannotBeTranscoded"],
    [id |-> -114, msg |-> "WMP_errIncorrectCodecSubVersion"],
    [id |-> 0, msg |-> NULL]>>

MSG_JXR_FORMAT == "Currently only support GUID_PKPixelFormat24bppBGR, GUID_PKPixelFormat48bppRGB, GUID_PKPixelFormat8bppGray and GUID_PKPixelFormat16bppGray"

\* g_set_error(err, ..., "JXR decode error: %s", msg)
JxrDecodeError(msg) == "JXR decode error: " \o msg

\* the while loop of lines 64-70 with p = &msgs[p]: the condition tests
\* msgs[p].msg and then increments p, the body looks at the incremented p
RECURSIVE print_err_scan(_, _, _)
print_err_scan(jerr, err, p) ==
  IF msgs[p + 1].msg = NULL THEN err
  ELSE IF msgs[p + 2].id = jerr THEN JxrDecodeError(msgs[p + 2].msg)
  ELSE print_err_scan(jerr, err, p + 1)

\* print_err, lines 59-71: what *err holds afterwards
print_err(jerr, err) ==
  IF jerr >= 0 THEN err ELSE print_err_scan(jerr, err, 0)

\* the pixel formats the if chain of lines 106-117 accepts
JxrAllowed ==
  {"GUID_PKPixelFormat24bppBGR", "GUID_PKPixelFormat48bppRGB",
   "GUID_PKPixelFormat8bppGray", "GUID_PKPixelFormat16bppGray"}

\* the calls into jxrlib whose status the function tests, in order
JxrCalls ==
  <<"PKCodecFactory_CreateCodec", "pDecoder->Initialize",
    "PKCodecFactory_CreateFormatConverter", "pConverter->Initialize",
    "pConverter->Copy">>

\* what a call of _openslide_jxr_decode_buf leaves: the value returned, *err,
\* the content class of dst, how the call ended ("no": it returned, "null":
\* killed calling through a null pointer, "abort": killed by g_assert) and
\* the releases it made
JxrResult(ret, err, out, fault, calls) ==
  [ret |-> ret, err |-> err, out |-> out, fault |-> fault, calls |-> calls]

\* Cleanup, lines 148-154, entered with jerr, *err, the two object pointers
\* (TRUE: set) and dst.  A call through a null object pointer kills the
\* process unless survives, and then has no effect.
JxrCleanup(jerr, err, pDecoder, pConverter, out, survives) ==
  LET e == print_err(jerr, err)
      c1 == {"CloseWS_Memory"}
      c2 == c1 \cup {IF pDecoder THEN "pDecoder->Release"
                     ELSE "NULL->Release(&pDecoder)"}
      c3 == c2 \cup {IF pConverter THEN "pConverter->Release"
                     ELSE "NULL->Release(&pConverter)"}
  IN IF ~pDecoder /\ ~survives THEN JxrResult(FALSE, e, out, "null", c2)
     ELSE IF ~pConverter /\ ~survives THEN JxrResult(FALSE, e, out, "null", c3)
     ELSE JxrResult(~(jerr < 0), e, out, "no", c3)

\* _openslide_jxr_decode_buf, lines 81-155, called with *err unset and a
\* stale dst: status[k] is what the k-th call of JxrCalls returns, fmt the
\* pixel format of the stream and fits whether the decoded image is at
\* most dst_len bytes
_openslide_jxr_decode_buf(status, fmt, fits, survives) ==
  IF status[1] < 0
  THEN JxrCleanup(status[1], NULL, FALSE, FALSE, "S", survives)
  ELSE IF status[2] < 0
  THEN JxrCleanup(status[2], NULL, TRUE, FALSE, "S", survives)
  ELSE IF fmt \notin JxrAllowed
  THEN JxrCleanup(status[2], MSG_JXR_FORMAT, TRUE, FALSE, "S", survives)
  ELSE IF ~fits
  THEN JxrResult(FALSE, NULL, "S", "abort", {})
  ELSE IF status[3] < 0
  THEN JxrCleanup(status[3], NULL, TRUE, FALSE, "S", survives)
  ELSE IF status[4] < 0
  THEN JxrCleanup(status[4], NULL, TRUE, TRUE, "S", survives)
  ELSE IF status[5] < 0
  THEN JxrCleanup(status[5], NULL, TRUE, TRUE, "P", survives)
  ELSE JxrCleanup(status[5], NULL, TRUE, TRUE, "P", survives)

\* thread t decodes a JPEG XR tile
jxr_decode_buf(t, status, fmt, fits, survives) ==
  /\ life # "crashed"
  /\ thr[t].pc = "idle"
  /\ LET r == _openslide_jxr_decode_buf(status, fmt, fits, survives)
     IN /\ thr' = [thr EXCEPT ![t] =
                     [pc |-> IF r.fault = "no" THEN "done" ELSE "fault",
                      op |-> "jxr_decode_buf",
                      arg |-> [status |-> status, fmt |-> fmt, fits |-> fits],
                      ret |-> [b |-> r.ret], err |-> r.err, out |-> r.out,
                      fault |-> r.fault, calls |-> r.calls]]
        /\ life' = IF r.fault = "no" THEN life ELSE "crashed"
  /\ UNCHANGED <<env, pixman_once, osr, last, teardown, image>>

\* 'W', 'M', 'P', 'H', 'O', 'T', 'O', '\0': the bytes compared at lines 171-173
WMPHOTO == <<87, 77, 80, 72, 79, 84, 79, 0>>

\* the comparison of lines 171-173 at offset i, from its k-th byte on: &&
\* reads the next byte only when the ones before matched
RECURSIVE magic_at(_, _, _)
magic_at(data, i, k) ==
  IF k = 8 THEN "match"
  ELSE IF ~InBounds(Len(data), i + k, 1) THEN "overrun"
  ELSE IF data[i + k + 1] # WMPHOTO[k + 1] THEN "differs"
  ELSE magic_at(data, i, k + 1)

\* the for loop of lines 170-178 from offset i: the offset of the magic, -1
\* when the loop ends without it, -2 when a comparison reads outside data
RECURSIVE jxr_scan(_, _, _)
jxr_scan(data, i, limit) ==
  IF ~(i < limit) THEN -1
  ELSE LET m == magic_at(data, i, 0)
       IN IF m = "match" THEN i
          ELSE IF m = "overrun" THEN -2
          ELSE jxr_scan(data, i + 1, limit)

\* short_header_flag, lines 159-161
short_header_flag(data, s) == (data[s + 11] \div 128) % 2 = 1

\* a uint32_t as its two 16-bit halves
U32(hi, lo) == [hi |-> hi, lo |-> lo]
Unset32 == U32(-1, -1)

\* GUINT16_FROM_BE and GUINT32_FROM_BE of the bytes at offset o
GUINT16_FROM_BE(data, o) == U32(0, data[o + 1] * 256 + data[o + 2])
GUINT32_FROM_BE(data, o) ==
  U32(data[o + 1] * 256 + data[o + 2], data[o + 3] * 256 + data[o + 4])

\* v + 1 in uint32_t
Inc32(v) ==
  IF v.lo + 1 < 65536 THEN U32(v.hi, v.lo + 1)
  ELSE U32((v.hi + 1) % 65536, 0)

\* what a call of _openslide_jxr_dim leaves: the value returned, *width and
\* *height (Unset32: not stored) and whether it read outside data
JxrDim(ret, width, height, fault) ==
  [ret |-> ret, width |-> width, height |-> height, fault |-> fault]

\* _openslide_jxr_dim, lines 164-199, on a buffer of data_len = Len(data)
\* bytes; data_len - 8 is computed in size_t
_openslide_jxr_dim(data) ==
  LET s == jxr_scan(data, 0, SizeT(Len(data) - 8))
  IN IF s = -2 THEN JxrDim(FALSE, Unset32, Unset32, "overrun")
     ELSE IF s = -1 THEN JxrDim(FALSE, Unset32, Unset32, "no")
     ELSE IF ~InBounds(Len(data), s + 10, 1)
     THEN JxrDim(FALSE, Unset32, Unset32, "overrun")
     ELSE IF short_header_flag(data, s)
     THEN IF ~InBounds(Len(data), s + 12, 4)
          THEN JxrDim(FALSE, Unset32, Unset32, "overrun")
          ELSE JxrDim(TRUE, Inc32(GUINT16_FROM_BE(data, s + 12)),
                      Inc32(GUINT16_FROM_BE(data, s + 14)), "no")
     ELSE IF ~InBounds(Len(data), s + 12, 8)
          THEN JxrDim(FALSE, Unset32, Unset32, "overrun")
          ELSE JxrDim(TRUE, Inc32(GUINT32_FROM_BE(data, s + 12)),
                      Inc32(GUINT32_FROM_BE(data, s + 16)), "no")

\* thread t probes a buffer for the dimensions of a JPEG XR stream.  A read
\* outside the buffer either kills the process or goes unnoticed, and then
\* what the call returns is not determined.
jxr_dim(t, data, survives, stray) ==
  /\ life # "crashed"
  /\ thr[t].pc = "idle"
  /\ LET r == _openslide_jxr_dim(data)
         ok == r.fault = "no" \/ survives
     IN /\ thr' = [thr EXCEPT ![t] =
                     [pc |-> IF ok THEN "done" ELSE "fault",
                      op |-> "jxr_dim", arg |-> [data |-> data],
                      ret |-> [b |-> IF r.fault = "no" THEN r.ret ELSE stray],
                      width |-> r.width, height |-> r.height,
                      fault |-> r.fault]]
        /\ life' = IF ok THEN life ELSE "crashed"
  /\ UNCHANGED <<env, pixman_once, osr, last, teardown, image>>

(***************************************************************************)
(* The environments: slide files as the backends see them.                 *)
(***************************************************************************)
File(accepts, ret, err, ops, cache, levels, channels, icc, assoc) ==
  [accepts |-> accepts, open_ret |-> ret, open_err |-> err,
   reg_ops |-> ops, reg_cache |-> cache, levels |-> levels,
   level_count |-> Len(levels), channel_count |-> channels,
   icc_profile_size |-> icc, assoc |-> assoc, hash |-> TRUE,
   tifflike |-> TRUE]

\* the same file in a container that _openslide_tifflike_create rejects
NotTifflike(f) == [f EXCEPT !.tifflike = FALSE]

Label == [name |-> "label", w |-> 2, h |-> 1, icc_profile_size |-> 4]
Macro == [name |-> "macro", w |-> 1, h |-> 1, icc_profile_size |-> 0]

\* a two-level pyramid whose downsamples the backend leaves to open
Pyramid == <<Level(16, 16, 0), Level(4, 4, 0)>>

\* the files of the reading specifications
ReadFiles ==
  { File({3}, TRUE, NULL, TRUE, FALSE, Pyramid, 1, 8, {Label, Macro}),
    File({3, 9}, TRUE, NULL, TRUE, TRUE, Pyramid, 2, 0, {}),
    File({13}, FALSE, MSG_BACKEND, TRUE, FALSE, Pyramid, 1, 8, {Label}),
    File({1}, FALSE, NULL, FALSE, FALSE, <<>>, 0, 0, {}),
    File({}, TRUE, NULL, TRUE, FALSE, Pyramid, 1, 0, {}) }

ReadEnvs ==
  {[file |-> f, pixman_works |-> TRUE] : f \in ReadFiles}
  \cup {[file |-> File({3}, TRUE, NULL, TRUE, FALSE, Pyramid, 1, 8, {Label}),
         pixman_works |-> FALSE]}

\* openslide-image.c, lines 28-36: every kernel's call target starts as its
\* dispatcher
Dispatchers ==
  [bgr24 |-> "dispatch", restore |-> "dispatch", gray16 |-> "dispatch"]

InitWith(envs) ==
  /\ env \in envs
  /\ pixman_once = "init"
  /\ life = "unopened"
  /\ osr = NoHandle
  /\ thr = [t \in Threads |-> Idle]
  /\ last = Ret("none", Void, NULL, {}, {})
  /\ teardown = NoTeardown
  /\ image = Dispatchers

(***************************************************************************)
(* Spec: one client thread using every public operation of the handle.     *)
(***************************************************************************)
Client == {"t1"}
Origins == {<<0, 0>>, <<-50, -50>>}
Sizes == {<<-1, 1>>, <<1, -1>>, <<0, 1>>, <<1, 0>>, <<1, 1>>, <<2, 1>>,
          <<4097, 1>>, <<1, 4097>>}
ReadLevels == {-1, 0, 2}
Targets == {DS_UNIT \div 2, DS_UNIT, 4 * DS_UNIT, 10 * DS_UNIT, 100 * DS_UNIT}
PropertyArgs == {"openslide.vendor", "no-such-property"}
ImageArgs == {"label", "macro", "no-such-image"}

Init == InitWith(ReadEnvs)

Next ==
  \/ openslide_open
  \/ openslide_close
  \/ \E t \in Client : get_level_count(t)
  \/ \E t \in Client : get_channel_count(t)
  \/ \E t \in Client : get_timepoint_count(t)
  \/ \E t \in Client : get_zstack_count(t)
  \/ \E t \in Client, level \in ReadLevels : get_level_dimensions(t, level)
  \/ \E t \in Client, level \in ReadLevels : get_level_downsample(t, level)
  \/ \E t \in Client, ds \in Targets :
       get_best_level_for_downsample(t, ds)
  \/ \E t \in Client : get_property_names(t)
  \/ \E t \in Client, name \in PropertyArgs : get_property_value(t, name)
  \/ \E t \in Client : get_icc_profile_size(t)
  \/ \E t \in Client : get_associated_image_names(t)
  \/ \E t \in Client, name \in ImageArgs : get_associated_image_dimensions(t, name)
  \/ \E t \in Client, name \in ImageArgs :
       get_associated_image_icc_profile_size(t, name)
  \/ \E t \in Client, o \in Origins, level \in ReadLevels, sz \in Sizes :
       openslide_read_region_begin(t, o[1], o[2], level, sz[1], sz[2])
  \/ \E t \in Client, paint_ok \in BOOLEAN, cairo_ok \in BOOLEAN :
       openslide_read_region_tile(t, paint_ok, cairo_ok)
  \/ \E t \in Client, pb \in {PIXEL_BYTES_GRAY8, PIXEL_BYTES_GRAY16},
        o \in Origins, level \in ReadLevels, sz \in Sizes, alloc_ok \in BOOLEAN :
       openslide_read_region_gray_begin(t, pb, o[1], o[2], level, sz[1], sz[2],
                                        alloc_ok)
  \/ \E t \in Client, paint_ok \in BOOLEAN, cairo_ok \in BOOLEAN,
        survives \in BOOLEAN :
       openslide_read_region_gray_tile(t, paint_ok, cairo_ok, survives)
  \/ \E t \in Client : openslide_read_icc_profile_begin(t)
  \/ \E t \in Client, ok \in BOOLEAN : openslide_read_icc_profile_return(t, ok)
  \/ \E t \in Client, name \in ImageArgs :
       openslide_read_associated_image_begin(t, name)
  \/ \E t \in Client, ok \in BOOLEAN :
       openslide_read_associated_image_return(t, ok)
  \/ \E t \in Client, name \in ImageArgs :
       openslide_read_associated_image_icc_profile_begin(t, name)
  \/ \E t \in Client, ok \in BOOLEAN :
       openslide_read_associated_image_icc_profile_return(t, ok)

Spec == Init /\ [][Next]_vars

(***************************************************************************)
(* SpecOpen: openslide_open over many pyramids and backend behaviours,     *)
(* followed by the level queries.                                          *)
(***************************************************************************)
\* what a backend may store as a level's downsample: the zero sentinel, 1.0, 4.0
StoredDownsamples == {0, DS_UNIT, 4 * DS_UNIT}
Level0Choices == {Level(16, 16, ds) : ds \in StoredDownsamples}
LevelChoices ==
  {Level(wh[1], wh[2], ds) :
     wh \in {<<4, 4>>, <<1, 1>>, <<16, 4>>}, ds \in StoredDownsamples}

RECURSIVE Pyramids(_)
Pyramids(n) ==
  IF n = 1 THEN {<<l>> : l \in Level0Choices}
  ELSE {Append(p, l) : p \in Pyramids(n - 1), l \in LevelChoices}

\* files accepted by no backend, by the first, by the last and by several,
\* in TIFF-like containers and in others
DetectFiles ==
  {[File(acc, TRUE, NULL, TRUE, FALSE, Pyramid, 1, 0, {})
      EXCEPT !.tifflike = sniffed] :
     acc \in {{}, {1}, {7, 10}, {NumFormats}, {2, 3, NumFormats}},
     sniffed \in BOOLEAN}

OpenFiles ==
  {File({3}, TRUE, NULL, TRUE, FALSE, lv, 1, 0, {}) :
     lv \in UNION {Pyramids(n) : n \in 1..MaxLevels}}
  \cup {File({5, 13}, b[1], b[2], ops, cache, Pyramid, 1, 8, {Label}) :
          b \in {<<FALSE, NULL>>, <<FALSE, MSG_BACKEND>>, <<TRUE, MSG_BACKEND>>},
          ops \in BOOLEAN, cache \in BOOLEAN}
  \cup {File({}, TRUE, NULL, TRUE, FALSE, Pyramid, 1, 0, {})}
  \cup DetectFiles

OpenEnvs ==
  {[file |-> f, pixman_works |-> TRUE] : f \in OpenFiles}
  \cup {[file |-> File({3}, TRUE, NULL, TRUE, FALSE, Pyramid, 1, 8, {Label}),
         pixman_works |-> FALSE]}

OpenTargets ==
  {DS_UNIT \div 2, DS_UNIT, (5 * DS_UNIT) \div 2, 4 * DS_UNIT, 10 * DS_UNIT,
   16 * DS_UNIT, 100 * DS_UNIT}

InitOpen == InitWith(OpenEnvs)

NextOpen ==
  \/ openslide_open
  \/ openslide_close
  \/ \E t \in Client : get_level_count(t)
  \/ \E t \in Client, level \in -1..MaxLevels : get_level_dimensions(t, level)
  \/ \E t \in Client, level \in -1..MaxLevels : get_level_downsample(t, level)
  \/ \E t \in Client, ds \in OpenTargets : get_best_level_for_downsample(t, ds)
  \/ \E t \in Client, w \in {-1, 1} : openslide_read_region_begin(t, 0, 0, 0, w, 1)
  \/ \E t \in Client, paint_ok \in BOOLEAN :
       openslide_read_region_tile(t, paint_ok, TRUE)

SpecOpen == InitOpen /\ [][NextOpen]_vars

(***************************************************************************)
(* SpecRace: two threads reading from the same handle.                     *)
(***************************************************************************)
RaceEnvs ==
  {[file |-> f, pixman_works |-> TRUE] :
     f \in { File({3}, TRUE, NULL, TRUE, FALSE, Pyramid, 1, 8, {Label}),
             File({3}, TRUE, NULL, TRUE, FALSE, Pyramid, 2, 8, {Label}),
             File({13}, FALSE, MSG_BACKEND, TRUE, FALSE, Pyramid, 1, 8, {Label}) }}

RaceSizes == {<<-1, 1>>, <<1, 1>>}

InitRace == InitWith(RaceEnvs)

NextRace ==
  \/ openslide_open
  \/ openslide_close
  \/ \E t \in Threads : get_level_count(t)
  \/ \E t \in Threads, sz \in RaceSizes :
       openslide_read_region_begin(t, 0, 0, 0, sz[1], sz[2])
  \/ \E t \in Threads, paint_ok \in BOOLEAN, cairo_ok \in BOOLEAN :
       openslide_read_region_tile(t, paint_ok, cairo_ok)
  \/ \E t \in Threads, level \in {0, 2}, alloc_ok \in BOOLEAN :
       openslide_read_region_gray_begin(t, PIXEL_BYTES_GRAY8, 0, 0, level, 1, 1,
                                        alloc_ok)
  \/ \E t \in Threads, paint_ok \in BOOLEAN :
       openslide_read_region_gray_tile(t, paint_ok, TRUE, TRUE)
  \/ \E t \in Threads : openslide_read_icc_profile_begin(t)
  \/ \E t \in Threads, ok \in BOOLEAN : openslide_read_icc_profile_return(t, ok)
  \/ \E t \in Threads : openslide_read_associated_image_begin(t, "label")
  \/ \E t \in Threads, ok \in BOOLEAN :
       openslide_read_associated_image_return(t, ok)

SpecRace == InitRace /\ [][NextRace]_vars

(***************************************************************************)
(* SpecTiling: full-colour reads of regions larger than one sub-tile from  *)
(* a three-level slide with downsamples 1, 2.5 and 4.                      *)
(***************************************************************************)
TilePyramid == <<Level(16, 16, 0), Level(16, 4, 0), Level(4, 4, 0)>>
TileEnvs ==
  {[file |-> File({3}, TRUE, NULL, TRUE, FALSE, TilePyramid, 1, 0, {}),
    pixman_works |-> TRUE]}
TileXs == {0, -50, 100}
TileYs == {0, -50}
TileLevels == {0, 1, 2, 3}
TileWidths == {0, 1, d, d + 1, 2 * d + 1}
TileHeights == {1, d + 1}

InitTiling == InitWith(TileEnvs)

NextTiling ==
  \/ openslide_open
  \/ \E t \in Client, x \in TileXs, y \in TileYs, level \in TileLevels,
        w \in TileWidths, h \in TileHeights :
       openslide_read_region_begin(t, x, y, level, w, h)
  \/ \E t \in Client, paint_ok \in BOOLEAN, cairo_ok \in BOOLEAN :
       openslide_read_region_tile(t, paint_ok, cairo_ok)

SpecTiling == InitTiling /\ [][NextTiling]_vars

(***************************************************************************)
(* SpecClip: full-colour and gray reads from origins left of and above the *)
(* slide, on a three-level slide with downsamples 1, 2 and 4.              *)
(***************************************************************************)
ClipPyramid == <<Level(16, 16, 0), Level(8, 8, 0), Level(4, 4, 0)>>
ClipEnvs ==
  {[file |-> File({3}, TRUE, NULL, TRUE, FALSE, ClipPyramid, 1, 0, {}),
    pixman_works |-> TRUE]}
ClipXs == {-51, -50, 0, 7}
ClipYs == {-50, 0}
ClipLevels == {0, 1, 2}
ClipWidths == {25, 26, 60, d + 1}
ClipHeights == {25, 26}

InitClip == InitWith(ClipEnvs)

NextClip ==
  \/ openslide_open
  \/ \E t \in Client, x \in ClipXs, y \in ClipYs, level \in ClipLevels,
        w \in ClipWidths, h \in ClipHeights :
       openslide_read_region_begin(t, x, y, level, w, h)
  \/ \E t \in Client, paint_ok \in BOOLEAN :
       openslide_read_region_tile(t, paint_ok, TRUE)
  \/ \E t \in Client, pb \in {PIXEL_BYTES_GRAY8, PIXEL_BYTES_GRAY16},
        x \in ClipXs, y \in ClipYs, level \in ClipLevels,
        w \in ClipWidths, h \in ClipHeights :
       openslide_read_region_gray_begin(t, pb, x, y, level, w, h, TRUE)
  \/ \E t \in Client, paint_ok \in BOOLEAN :
       openslide_read_region_gray_tile(t, paint_ok, TRUE, TRUE)

SpecClip == InitClip /\ [][NextClip]_vars

(***************************************************************************)
(* SpecImage: one thread calling the three kernels on patterned buffers,   *)
(* on every build and CPU.                                                 *)
(***************************************************************************)
Builds == {{}, {"USE_SSSE3", "USE_AVX2"}}
Cpus == {{}, {"sse3"}, {"sse3", "ssse3"}, {"sse3", "ssse3", "avx2"}}
ImageEnvs ==
  {[file |-> File({3}, TRUE, NULL, TRUE, FALSE, Pyramid, 1, 0, {}),
    pixman_works |-> TRUE, build |-> b, cpu |-> c] : b \in Builds, c \in Cpus}

\* BGR24 buffers: every byte differs from its neighbours
BgrLens == {0, 3, 9, 12, 15, 21, 24, 27, 36, 48, 51, 72, 75}
Seeds == {0, 3}
BytePattern(len, seed) == [i \in 1..len |-> (seed + 5 * i) % 256]

\* byte planes of even length
PlaneLens == {0, 2, 30, 32, 34, 62, 64, 66, 70, 128, 130}

\* gray16 buffers: little-endian samples around the saturation threshold
\* of the depth and around the sign bit of the high byte
GrayLens == {0, 2, 16, 34, 66, 98}
Depths == 8..16
GraySamples(bits) ==
  <<0, 2 ^ bits - 1, (2 ^ bits) % 65536, 255, 256, 32767, 32768, 65535>>
GrayPattern(len, bits, seed) ==
  [i \in 1..len |->
     LET v == GraySamples(bits)[(((i - 1) \div 2 + seed) % 8) + 1]
     IN IF i % 2 = 1 THEN v % 256 ELSE v \div 256]

InitImage == InitWith(ImageEnvs)

NextImage ==
  \/ \E t \in Client, len \in BgrLens, seed \in Seeds :
       image_call(t, "bgr24", BytePattern(len, seed), 8, TRUE)
  \/ \E t \in Client, len \in PlaneLens, seed \in Seeds :
       image_call(t, "restore", BytePattern(len, seed), 16, TRUE)
  \/ \E t \in Client, len \in GrayLens, bits \in Depths, seed \in Seeds,
        aligned \in BOOLEAN :
       image_call(t, "gray16", GrayPattern(len, bits, seed), bits, aligned)
  \/ \E t \in Client : image_dispatch(t)
  \/ \E t \in Client : image_recall(t)
  \/ \E t \in Client, survives \in BOOLEAN : image_run(t, survives)

SpecImage == InitImage /\ [][NextImage]_vars

(***************************************************************************)
(* SpecDispatch: two threads making the first calls of the kernels at the  *)
(* same time, on buffers of more than two vector steps on which every      *)
(* implementation gives the reference output.  The loads and stores of a   *)
(* call target are single steps: a load sees the dispatcher or the stored  *)
(* implementation.                                                         *)
(***************************************************************************)
DispatchBgrLens == {51}
DispatchPlaneLens == {66}
DispatchGrayLens == {66}
DispatchDepths == {12}

NextDispatch ==
  \/ \E t \in Threads, len \in DispatchBgrLens :
       image_call(t, "bgr24", BytePattern(len, 0), 8, TRUE)
  \/ \E t \in Threads, len \in DispatchPlaneLens :
       image_call(t, "restore", BytePattern(len, 0), 16, TRUE)
  \/ \E t \in Threads, len \in DispatchGrayLens, bits \in DispatchDepths :
       image_call(t, "gray16", GrayPattern(len, bits, 0), bits, TRUE)
  \/ \E t \in Threads : image_dispatch(t)
  \/ \E t \in Threads : image_recall(t)
  \/ \E t \in Threads, survives \in BOOLEAN : image_run(t, survives)

SpecDispatch == InitImage /\ [][NextDispatch]_vars

(***************************************************************************)
(* SpecJxr: one thread decoding a JPEG XR tile under every outcome of the  *)
(* codec calls, or probing a buffer for the stream's dimensions.           *)
(***************************************************************************)
WMP_errSuccess == 0
\* the statuses a failing codec call reports: every entry of msgs[] and one
\* negative ERR that msgs[] does not list
JxrFailures == {msgs[k].id : k \in 1..(Len(msgs) - 1)} \cup {-115}

\* every call up to the n-th succeeds, the n-th returns status
CodecRun(n, status) ==
  [k \in 1..Len(JxrCalls) |-> IF k = n THEN status ELSE WMP_errSuccess]

JxrRuns ==
  {CodecRun(n, st) : n \in 1..Len(JxrCalls), st \in JxrFailures}
  \cup {CodecRun(0, WMP_errSuccess), CodecRun(Len(JxrCalls), 1)}

JxrFormats ==
  JxrAllowed \cup {"GUID_PKPixelFormat32bppBGRA", "GUID_PKPixelFormat128bppRGBAFloat"}

Zeros(n) == [i \in 1..n |-> 0]

\* a JPEG XR image header: the magic, two bytes, the flags byte whose bit
\* 0x80 selects 16-bit fields, a byte and the fields
JxrHeader(flags, fields) == WMPHOTO \o <<1, 0, flags, 0>> \o fields

JxrFields ==
  {<<0, 255, 1, 0, 0, 0, 0, 7>>, <<255, 255, 0, 0, 255, 255, 255, 255>>,
   <<0, 0, 255, 255, 0, 2, 0, 0>>}

Cut(data, n) == SubSeq(data, 1, Min(n, Len(data)))

\* buffers holding a header after a run of zeros, whole and truncated, and
\* buffers without the magic
JxrBuffers ==
  {Cut(Zeros(z) \o JxrHeader(flags, f) \o Zeros(tail), n) :
     z \in {0, 3}, flags \in {5, 133}, f \in JxrFields, tail \in {0, 8},
     n \in {0, 3, 7, 8, 9, 11, 16, 19, 20, 23, 31}}
  \cup {Zeros(n) : n \in {0, 1, 7, 8, 9, 40}}
  \cup {<<87, 77, 80, 72, 79, 84, 79, 49, 0, 0, 0, 0, 0, 0, 0, 0>>}

InitJxr == InitWith(ReadEnvs)

NextJxr ==
  \/ \E t \in Client, status \in JxrRuns, fmt \in JxrFormats, fits \in BOOLEAN,
        survives \in BOOLEAN :
       jxr_decode_buf(t, status, fmt, fits, survives)
  \/ \E t \in Client, data \in JxrBuffers, survives \in BOOLEAN,
        stray \in BOOLEAN :
       jxr_dim(t, data, survives, stray)

SpecJxr == InitJxr /\ [][NextJxr]_vars

(***************************************************************************)
(* Properties.                                                             *)
(***************************************************************************)
IsRegionRead(c) == c.pc = "done" /\ c.op \in {"read_region", "read_region_gray"}

\* every byte of the caller's w x h buffer is zero
AllZero(c) == c.arg.w * c.arg.h = 0 \/ c.dest = "Z"

\* C1: once the handle's error is set, no step of any thread clears it or
\* replaces its message while the handle is open (close frees it).
C1_StickyErrorWriteOnce ==
  [][(life = "open" /\ osr.error # NULL /\ life' # "closed")
       => osr'.error = osr.error]_vars

\* two failing calls raced: a thread that saw no error on entry tried to
\* store its own failure after another thread's message was already stored
C1_Witness ==
  /\ life = "open"
  /\ \E t \in Threads :
       /\ thr[t].pc = "done"
       /\ thr[t].entry = NULL
       /\ thr[t].tried # {}
       /\ osr.error \notin thr[t].tried
       /\ osr.error # NULL

\* C2: a call made on a handle whose error is set returns its sentinel and
\* invokes no backend entry point.
C2_ErroredAccessorsShortCircuit ==
  \A t \in Threads :
    (thr[t].pc = "done" /\ thr[t].entry # NULL) =>
      LET c == thr[t] IN
      /\ c.calls = {}
      /\ c.op \in {"get_level_count", "get_channel_count", "get_timepoint_count",
                   "get_zstack_count", "get_best_level_for_downsample",
                   "get_icc_profile_size",
                   "get_associated_image_icc_profile_size"} => c.ret = Num(-1)
      /\ c.op \in {"get_level_dimensions", "get_associated_image_dimensions"}
           => c.ret = Pair(<<-1, -1>>)
      /\ c.op = "get_level_downsample" => c.ret = Num(-DS_UNIT)
      /\ c.op = "get_property_value" => c.ret = Text(NULL)
      /\ c.op \in {"get_property_names", "get_associated_image_names"}
           => c.ret = Names({})

\* a well-formed two-tile region read returned from a handle already in error
C2_Witness ==
  /\ life = "open"
  /\ osr.error # NULL
  /\ \E t \in Threads :
       /\ thr[t].pc = "done"
       /\ thr[t].entry # NULL
       /\ thr[t].op = "read_region"
       /\ thr[t].arg.w = 4097 /\ thr[t].arg.h = 1 /\ thr[t].arg.level = 0
       /\ osr.level_count = 2 /\ osr.channel_count = 1

\* C3 as claimed: a full-colour read with w, h >= 0 (here at a level the
\* handle has) that returns with the handle's error set leaves every
\* destination pixel zero.
C3_Claimed_ColorZeroedOnError ==
  \A t \in Client :
    (life = "open" /\ IsRegionRead(thr[t]) /\ thr[t].op = "read_region"
       /\ thr[t].arg.w >= 0 /\ thr[t].arg.h >= 0
       /\ level_in_range(osr, thr[t].arg.level) /\ osr.error # NULL)
      => AllZero(thr[t])

\* C4 as claimed: a gray read with w, h >= 0 (here at a level the handle
\* has, and with the intermediate buffer allocated) that returns with the
\* handle's error set leaves every destination byte zero.
C4_Claimed_GrayZeroedOnError ==
  \A t \in Client :
    (life = "open" /\ IsRegionRead(thr[t]) /\ thr[t].op = "read_region_gray"
       /\ thr[t].arg.w >= 0 /\ thr[t].arg.h >= 0
       /\ level_in_range(osr, thr[t].arg.level)
       /\ MSG_ALLOC \notin thr[t].tried /\ osr.error # NULL)
      => AllZero(thr[t])

InvalidLevel(level) == level < 0 \/ level > osr.level_count - 1

\* C5 as claimed: on a Ready handle a region read with a negative size, an
\* out-of-range level (here for a region that is not empty) or (full colour)
\* several channels sets the error.
C5_Claimed_ValidationSetsError ==
  \A t \in Client :
    (life = "open" /\ IsRegionRead(thr[t]) /\ thr[t].entry = NULL
       /\ \/ thr[t].arg.w < 0
          \/ thr[t].arg.h < 0
          \/ (InvalidLevel(thr[t].arg.level)
                /\ thr[t].arg.w > 0 /\ thr[t].arg.h > 0)
          \/ (thr[t].op = "read_region" /\ osr.channel_count > 1))
      => osr.error # NULL

\* open returned a handle that passed every step of openslide_open
OpenSucceeded == life = "open" /\ last.op = "open" /\ last.tried = {}

\* C6: when no detect accepts the file, open returns NULL, allocates nothing
\* and calls no backend open; when a backend is detected and the compositing
\* probe or the backend's open fails, open returns a handle whose error is
\* the failure reason.
C6_OpenOutcomes ==
  last.op = "open" =>
    LET f == env.file IN
    /\ f.accepts = {} =>
         /\ last.ret = Text(NULL)
         /\ life = "null" /\ osr = NoHandle
         /\ last.calls = {"detect"}
         /\ teardown = NoTeardown
    /\ f.accepts # {} => "g_new0" \in last.calls
    /\ (f.accepts # {} /\ ~env.pixman_works) =>
         /\ last.ret = Text("handle") /\ life = "open"
         /\ osr.error = MSG_PIXMAN
         /\ "open" \notin last.calls
    /\ (f.accepts # {} /\ env.pixman_works /\ ~f.open_ret) =>
         /\ last.ret = Text("handle") /\ life = "open"
         /\ "open" \in last.calls
         /\ osr.error # NULL
         /\ f.open_err # NULL => osr.error = f.open_err
         /\ teardown = NoTeardown

\* open returned an Errored handle after a backend open that failed without
\* giving a reason
C6_Witness ==
  /\ last.op = "open"
  /\ life = "open"
  /\ env.file.accepts = {5, 13}
  /\ ~env.file.open_ret /\ env.file.open_err = NULL
  /\ osr.error = MSG_UNKNOWN

\* C7: when a level's downsample after the fill is smaller than the previous
\* level's, open returns NULL and the handle is torn down; a handle that open
\* returned without error has non-decreasing downsamples as long as it lives.
C7_DownsampleMonotonic ==
  /\ (last.op = "open"
        /\ \E i \in 2..Len(last.levels) :
             last.levels[i].downsample < last.levels[i - 1].downsample)
       => /\ last.ret = Text(NULL)
          /\ life = "null" /\ osr = NoHandle
          /\ teardown.freed = 1
          /\ teardown.destroy = (IF env.file.reg_ops THEN 1 ELSE 0)
  /\ OpenSucceeded =>
       \A i \in 1..osr.level_count, j \in 1..osr.level_count :
         i < j => osr.levels[i].downsample <= osr.levels[j].downsample

\* open refused a three-level slide whose last level is out of order
C7_Witness ==
  /\ last.op = "open"
  /\ last.ret = Text(NULL)
  /\ Len(last.levels) = 3
  /\ last.levels[2].downsample >= last.levels[1].downsample
  /\ last.levels[3].downsample < last.levels[2].downsample
  /\ teardown.freed = 1

\* C8 as claimed: on a Ready handle level 0's downsample is 1.0 whatever the
\* backend stored for it.
C8_Claimed_Level0IsOne ==
  (OpenSucceeded /\ osr.error = NULL) =>
    /\ osr.levels[1].downsample = DS_UNIT
    /\ \A t \in Client :
         (thr[t].pc = "done" /\ thr[t].op = "get_level_downsample"
            /\ thr[t].arg = Num(0)) => thr[t].ret = Num(DS_UNIT)

\* C8 amended: on a Ready handle level 0's downsample is 1.0 when the backend
\* left the zero sentinel there, and otherwise the value the backend stored;
\* openslide_get_level_downsample(0) returns that value.
C8_Level0Downsample ==
  (OpenSucceeded /\ osr.error = NULL) =>
    LET stored == env.file.levels[1].downsample
        want == IF stored = 0 THEN DS_UNIT ELSE stored
    IN /\ osr.levels[1].downsample = want
       /\ \A t \in Client :
            (thr[t].pc = "done" /\ thr[t].op = "get_level_downsample"
               /\ thr[t].arg = Num(0)) => thr[t].ret = Num(want)

\* the backend left level 0's downsample to open, and the query returned 1.0
C8_Witness ==
  /\ OpenSucceeded /\ osr.error = NULL
  /\ env.file.levels[1].downsample = 0
  /\ osr.level_count = 3
  /\ thr["t1"].pc = "done" /\ thr["t1"].op = "get_level_downsample"
  /\ thr["t1"].arg = Num(0) /\ thr["t1"].ret = Num(DS_UNIT)

\* C9: on a Ready handle the best level for a target is 0 when the target is
\* below level 0's downsample; otherwise its downsample is <= target and no
\* level with a strictly larger downsample is <= target; the result is a
\* valid level; for [1, 4, 16] it is 0 for 0.5, 1 for 4, 1 for 10, 2 for 100.
C9_BestLevel ==
  \A t \in Client :
    (OpenSucceeded /\ thr[t].pc = "done"
       /\ thr[t].op = "get_best_level_for_downsample" /\ thr[t].entry = NULL) =>
      LET target == thr[t].arg.i
          r == thr[t].ret.i
          ds(l) == osr.levels[l + 1].downsample
          range == 0..(osr.level_count - 1)
      IN /\ r \in range
         /\ target < ds(0) => r = 0
         /\ target >= ds(0) =>
              /\ ds(r) <= target
              /\ \A l \in range : ds(l) > ds(r) => ~(ds(l) <= target)
         /\ (osr.level_count = 3 /\ ds(0) = DS_UNIT /\ ds(1) = 4 * DS_UNIT
               /\ ds(2) = 16 * DS_UNIT) =>
              /\ target = DS_UNIT \div 2 => r = 0
              /\ target = 4 * DS_UNIT => r = 1
              /\ target = 10 * DS_UNIT => r = 1
              /\ target = 100 * DS_UNIT => r = 2

\* on the slide with downsamples [1, 4, 16] the target 10 gave level 1
C9_Witness ==
  /\ OpenSucceeded /\ osr.error = NULL
  /\ osr.level_count = 3
  /\ osr.levels[1].downsample = DS_UNIT
  /\ osr.levels[2].downsample = 4 * DS_UNIT
  /\ osr.levels[3].downsample = 16 * DS_UNIT
  /\ thr["t1"].pc = "done"
  /\ thr["t1"].op = "get_best_level_for_downsample"
  /\ thr["t1"].arg = Num(10 * DS_UNIT)
  /\ thr["t1"].ret = Num(1)

\* the destination rectangle a sub-tile call writes, from its offset into a
\* buffer whose rows are w pixels
Top(tc, w) == tc.off \div w
Left(tc, w) == tc.off % w

Disjoint(a, b, w) ==
  \/ Top(a, w) + a.sh <= Top(b, w) \/ Top(b, w) + b.sh <= Top(a, w)
  \/ Left(a, w) + a.sw <= Left(b, w) \/ Left(b, w) + b.sw <= Left(a, w)

RECURSIVE TileArea(_)
TileArea(ts) ==
  IF ts = <<>> THEN 0 ELSE Head(ts).sw * Head(ts).sh + TileArea(Tail(ts))

\* C10: a full-colour read of a w x h region with w or h above d that
\* succeeds has visited the ceil(h/d) x ceil(w/d) grid in row-major order;
\* sub-tile (row, col) has size min(w-col*d,d) x min(h-row*d,d), is written
\* at pixel offset (row*d)*w + col*d with a row stride of w pixels, the
\* sub-tiles' rectangles cover the buffer exactly once, and what each asks
\* of the backend is what a separate read of that sub-tile at the origin
\* (x + col*d*ds, y + row*d*ds) asks.
C10_TilingTransparency ==
  \A t \in Client :
    (life = "open" /\ thr[t].pc = "done" /\ thr[t].op = "read_region"
       /\ thr[t].entry = NULL /\ thr[t].tried = {} /\ osr.error = NULL
       /\ (thr[t].arg.w > d \/ thr[t].arg.h > d)
       /\ thr[t].arg.w > 0 /\ thr[t].arg.h > 0) =>
      LET a == thr[t].arg
          ts == thr[t].tiles
          cols == (a.w + d - 1) \div d
          rows == (a.h + d - 1) \div d
      IN /\ Len(ts) = rows * cols
         /\ \A k \in 1..Len(ts) :
              LET row == (k - 1) \div cols
                  col == (k - 1) % cols
              IN /\ ts[k].row = row /\ ts[k].col = col
                 /\ ts[k].sw = Min(a.w - col * d, d)
                 /\ ts[k].sh = Min(a.h - row * d, d)
                 /\ ts[k].off = (row * d) * a.w + col * d
                 /\ ts[k].stride = a.w * PIXEL_BYTES_ARGB
                 /\ Top(ts[k], a.w) + ts[k].sh <= a.h
                 /\ Left(ts[k], a.w) + ts[k].sw <= a.w
                 /\ a.level \in 0..(osr.level_count - 1) =>
                      LET ds == osr.levels[a.level + 1].downsample
                          ox == a.x + (col * d * ds) \div DS_UNIT
                          oy == a.y + (row * d * ds) \div DS_UNIT
                      IN /\ ts[k].sx = ox /\ ts[k].sy = oy
                         /\ ts[k].rq = read_region_area(osr, ox, oy, a.level,
                                                        ts[k].sw, ts[k].sh)
         /\ \A k \in 1..Len(ts), m \in 1..Len(ts) :
              k # m => Disjoint(ts[k], ts[m], a.w)
         /\ TileArea(ts) = a.w * a.h

\* a 8193 x 4097 read at level 1 (downsample 2.5) from a negative origin
\* returned after six sub-tiles, the last one a single pixel
C10_Witness ==
  /\ life = "open" /\ osr.error = NULL
  /\ thr["t1"].pc = "done" /\ thr["t1"].op = "read_region"
  /\ thr["t1"].tried = {}
  /\ thr["t1"].arg = RegionArg(PIXEL_BYTES_ARGB, -50, -50, 1, 2 * d + 1, d + 1)
  /\ Len(thr["t1"].tiles) = 6
  /\ thr["t1"].tiles[6].sw = 1 /\ thr["t1"].tiles[6].sh = 1
  /\ thr["t1"].tiles[1].rq.paint /\ thr["t1"].tiles[1].rq.tx = 20

\* C11 as claimed: in a successful gray8 or gray16 read of a region wider or
\* taller than d (here from an origin inside the slide), sub-tile (row, col)
\* is written at the byte position of pixel (row*d, col*d) of the buffer,
\* and its rows are spaced by the row stride of the whole buffer.
C11_Claimed_GrayTiling ==
  \A t \in Client :
    (life = "open" /\ thr[t].pc = "done" /\ thr[t].op = "read_region_gray"
       /\ thr[t].entry = NULL /\ thr[t].tried = {} /\ osr.error = NULL
       /\ level_in_range(osr, thr[t].arg.level)
       /\ (thr[t].arg.w > d \/ thr[t].arg.h > d)
       /\ thr[t].arg.w > 0 /\ thr[t].arg.h > 0
       /\ thr[t].arg.x >= 0 /\ thr[t].arg.y >= 0) =>
      LET a == thr[t].arg
          ts == thr[t].tiles
          stride == ((a.w * a.pb + 3) \div 4) * 4
      IN \A k \in 1..Len(ts) :
           /\ ts[k].off = ts[k].row * d * stride + ts[k].col * d * a.pb
           /\ ts[k].stride = stride

\* C12: every sub-tile call of a full-colour or gray read at a level with
\* downsample ds, made for the sub-tile origin (sx, sy) and size sw x sh,
\* translates by tx = trunc(-sx/ds) when sx < 0 (else 0) and ty likewise,
\* clamps the origin to 0, asks the backend for (sw-tx) x (sh-ty) pixels,
\* and calls paint_region exactly when both are positive; the painted
\* rectangle then ends at the sub-tile's right and bottom edge, so that the
\* first tx columns and ty rows keep the zero they were cleared to.  The
\* request is the one an in-bounds read of the reduced rectangle makes.
C12_NegativeOriginClipping ==
  \A t \in Client :
    (life = "open" /\ thr[t].pc = "done"
       /\ thr[t].op \in {"read_region", "read_region_gray"}
       /\ thr[t].entry = NULL
       /\ level_in_range(osr, thr[t].arg.level)) =>
      LET a == thr[t].arg
          ts == thr[t].tiles
          ds == osr.levels[a.level + 1].downsample
      IN /\ \A k \in 1..Len(ts) :
              LET c == ts[k]
                  rq == c.rq
              IN /\ c.sx >= 0 => rq.tx = 0 /\ rq.x = c.sx /\ rq.w = c.sw
                 /\ c.sy >= 0 => rq.ty = 0 /\ rq.y = c.sy /\ rq.h = c.sh
                 /\ c.sx < 0 =>
                      /\ rq.tx * ds <= (-c.sx) * DS_UNIT
                      /\ (-c.sx) * DS_UNIT < (rq.tx + 1) * ds
                      /\ rq.x = 0 /\ rq.w = c.sw - rq.tx
                 /\ c.sy < 0 =>
                      /\ rq.ty * ds <= (-c.sy) * DS_UNIT
                      /\ (-c.sy) * DS_UNIT < (rq.ty + 1) * ds
                      /\ rq.y = 0 /\ rq.h = c.sh - rq.ty
                 /\ rq.paint <=> (rq.w > 0 /\ rq.h > 0)
                 /\ rq.paint =>
                      /\ rq.tx + rq.w = c.sw /\ rq.ty + rq.h = c.sh
                      /\ rq = [read_region_area(osr, rq.x, rq.y, a.level,
                                                rq.w, rq.h)
                                 EXCEPT !.tx = rq.tx, !.ty = rq.ty]
         /\ "paint_region" \in thr[t].calls
              <=> \E k \in 1..Len(ts) : ts[k].rq.paint
         /\ (thr[t].op = "read_region" /\ "paint_region" \notin thr[t].calls)
              => thr[t].dest = "Z"

\* a 60 x 26 read at level 1 (downsample 2) from (-50, -50) painted 35 x 1
\* pixels behind a border of 25 columns and 25 rows
C12_Witness ==
  /\ life = "open" /\ osr.error = NULL
  /\ thr["t1"].pc = "done" /\ thr["t1"].op = "read_region"
  /\ thr["t1"].arg = RegionArg(PIXEL_BYTES_ARGB, -50, -50, 1, 60, 26)
  /\ osr.levels[2].downsample = 2 * DS_UNIT
  /\ Len(thr["t1"].tiles) = 1
  /\ thr["t1"].tiles[1].rq.tx = 25 /\ thr["t1"].tiles[1].rq.ty = 25
  /\ thr["t1"].tiles[1].rq.w = 35 /\ thr["t1"].tiles[1].rq.h = 1
  /\ thr["t1"].tiles[1].rq.paint
  /\ thr["t1"].dest = "P"

\* the output of the scalar reference on src: pixel k is blue, green, red
\* from bytes 3k, 3k+1, 3k+2 and an alpha of 255
ArgbOf(src) ==
  [i \in 1..((Len(src) \div 3) * 4) |->
     IF i % 4 = 0 THEN 255 ELSE src[((i - 1) \div 4) * 3 + (i % 4)]]

\* C13 as claimed: every call of a BGR24 kernel, whichever implementation
\* it reaches, returns, stays inside its buffers and leaves in dst the
\* src_len/3 pixels of the scalar reference.
C13_Claimed_Bgr24Equivalence ==
  \A t \in Client :
    (thr[t].pc \in {"done", "fault"} /\ thr[t].op = "bgr24") =>
      /\ thr[t].pc = "done"
      /\ thr[t].fault = "no"
      /\ thr[t].dst = ArgbOf(thr[t].arg.src)

\* what gray16togray8 is to give for the little-endian samples of src at
\* the depth bits: the sample shifted down to 8 bits, or 255 when that is
\* above 255
SaturatedOf(src, bits) ==
  [k \in 1..(Len(src) \div 2) |->
     LET v == (src[2 * k - 1] + 256 * src[2 * k]) \div (2 ^ (bits - 8))
     IN IF v <= 255 THEN v ELSE 255]

\* C14 as claimed: every gray16 call that returned without leaving its
\* buffers, whichever implementation it reached and at every depth from 8
\* to 16, left in dst the saturated value of each sample.
C14_Claimed_Gray16Saturation ==
  \A t \in Client :
    (thr[t].pc = "done" /\ thr[t].op = "gray16" /\ thr[t].fault = "no") =>
      thr[t].dst = SaturatedOf(thr[t].arg.src, thr[t].arg.bits)

\* C15: every restore call on a buffer of even length 2n, whichever
\* implementation it reaches, returns without leaving its buffers, and dst
\* holds the interleaved stream: dst[2i] = src[i] and dst[2i+1] = src[n+i]
\* for all i < n.
C15_RestoreInvertsSplit ==
  \A t \in Client :
    (thr[t].pc \in {"done", "fault"} /\ thr[t].op = "restore"
       /\ Len(thr[t].arg.src) % 2 = 0) =>
      LET src == thr[t].arg.src
          dst == thr[t].dst
          n == Len(src) \div 2
      IN /\ thr[t].pc = "done" /\ thr[t].fault = "no"
         /\ Len(dst) = 2 * n
         /\ \A i \in 0..(n - 1) :
              dst[2 * i + 1] = src[i + 1] /\ dst[2 * i + 2] = src[n + i + 1]

\* the AVX2 implementation restored 130 bytes: two vector steps and a
\* remainder of one sample
C15_Witness ==
  /\ thr["t1"].pc = "done" /\ thr["t1"].op = "restore"
  /\ thr["t1"].target = "avx2"
  /\ Len(thr["t1"].arg.src) = 130
  /\ thr["t1"].dst[1] = thr["t1"].arg.src[1]
  /\ thr["t1"].dst[130] = thr["t1"].arg.src[130]
  /\ thr["t1"].dst[34] = thr["t1"].arg.src[65 + 17]

\* C16: openslide_close on any handle open returned, Ready or Errored,
\* returns; it has called the backend's destroy once if the handle had its
\* operations registered and not at all otherwise, has destroyed every
\* associated image of the handle once and nothing else, has released the
\* cache binding once if the handle had one and not at all otherwise, and
\* has freed the handle once.
C16_CloseSafe ==
  [][(life = "open" /\ life' # "open" /\ last'.op = "close") =>
       /\ life' = "closed"
       /\ teardown'.destroy = (IF osr.ops THEN 1 ELSE 0)
       /\ teardown'.images = {i.name : i \in osr.associated_images}
       /\ teardown'.assoc_destroy = Cardinality(teardown'.images)
       /\ teardown'.cache_destroy = (IF osr.cache THEN 1 ELSE 0)
       /\ teardown'.freed = 1]_vars

\* a handle whose backend failed before it registered operations or a
\* cache binding was closed: no destroy, no cache release, one free
C16_Witness ==
  /\ life = "closed" /\ last.op = "close"
  /\ ~env.file.reg_ops /\ ~env.file.reg_cache /\ ~env.file.open_ret
  /\ teardown.destroy = 0 /\ teardown.cache_destroy = 0
  /\ teardown.freed = 1

\* C17: when openslide_open has returned, detection has called the detect
\* of the backends in registry order, from the first one on without a gap,
\* each with the result of the container sniff (absent when it failed);
\* it stopped at the first backend that accepts the file, which is the one
\* returned, and it returned "no match" (open returns NULL without creating
\* a handle) only after every backend of the registry rejected the file.
C17_DetectionOrder ==
  last.op = "open" =>
    LET acc == env.file.accepts
        p == last.probed
    IN /\ \A k \in 1..Len(p) :
            p[k].format = k /\ p[k].tl = env.file.tifflike
       /\ \A k \in 1..(Len(p) - 1) : k \notin acc
       /\ acc # {} =>
            /\ Len(p) >= 1 /\ Len(p) \in acc
            /\ last.format = Len(p)
            /\ "g_new0" \in last.calls
       /\ acc = {} =>
            /\ Len(p) = NumFormats
            /\ last.format = 0
            /\ last.ret = Text(NULL) /\ last.calls = {"detect"}
            /\ life = "null"

\* a file in a container the sniff rejects, accepted by the backends 7 and
\* 10: seven backends were probed without a sniff result and the seventh
\* opened the slide
C17_Witness ==
  /\ last.op = "open" /\ life = "open" /\ osr.error = NULL
  /\ ~env.file.tifflike /\ env.file.accepts = {7, 10}
  /\ Len(last.probed) = 7 /\ last.format = 7
  /\ ~last.probed[1].tl

\* the backend's open broke its contract: success with an error reported,
\* or failure without one
Misbehaving(f) ==
  \/ f.open_ret /\ f.open_err # NULL
  \/ ~f.open_ret /\ f.open_err = NULL

\* C18: when the detected backend's open returns success and reports an
\* error, or returns failure and reports none, openslide_open returns a
\* handle, never NULL; the handle carries the reported error in the first
\* case and "Unknown error" in the second, for as long as it lives, and it
\* was not completed as a Ready handle (no properties were filled in).
C18_MisbehavingBackend ==
  (env.file.accepts # {} /\ env.pixman_works /\ Misbehaving(env.file)
     /\ life \in {"open", "null"}) =>
    /\ life = "open"
    /\ osr # NoHandle
    /\ osr.error # NULL
    /\ (env.file.open_ret => osr.error = env.file.open_err)
    /\ (~env.file.open_ret => osr.error = MSG_UNKNOWN)
    /\ osr.properties = {}
    /\ last.op = "open" =>
         /\ last.ret = Text("handle")
         /\ last.tried = {osr.error}
         /\ "open" \in last.calls /\ "close" \notin last.calls

\* open returned an Errored handle after a backend open that returned
\* success and reported an error
C18_Witness ==
  /\ last.op = "open" /\ life = "open"
  /\ env.pixman_works
  /\ env.file.open_ret /\ env.file.open_err = MSG_BACKEND
  /\ osr.error = MSG_BACKEND
  /\ last.ret = Text("handle")

\* the ratios of level 0's width and height to those of level i (1-based)
\* of the file, in units of 1/DS_UNIT
WidthRatio(i) == (env.file.levels[1].w * DS_UNIT) \div env.file.levels[i].w
HeightRatio(i) == (env.file.levels[1].h * DS_UNIT) \div env.file.levels[i].h

\* a level after the first whose downsample the backend left at zero
Inferred(i) ==
  /\ last.op = "open" /\ env.pixman_works
  /\ env.file.open_ret /\ env.file.open_err = NULL
  /\ i \in 2..Len(last.levels)
  /\ env.file.levels[i].downsample = 0

\* C20 as claimed: the downsample open infers for such a level is the
\* geometric mean of the width ratio and the height ratio: its square is
\* their product.
C20_Claimed_GeometricMean ==
  \A i \in 1..MaxLevels :
    Inferred(i) =>
      last.levels[i].downsample * last.levels[i].downsample
        = WidthRatio(i) * HeightRatio(i)

\* C20 amended: the downsample open infers for such a level is the
\* arithmetic mean of the width ratio and the height ratio.
C20_ArithmeticMean ==
  \A i \in 1..MaxLevels :
    Inferred(i) =>
      2 * last.levels[i].downsample = WidthRatio(i) + HeightRatio(i)

\* a 16 x 4 level under a 16 x 16 level 0 (width ratio 1, height ratio 4)
\* was given the downsample 2.5
C20_Witness ==
  /\ OpenSucceeded /\ osr.error = NULL
  /\ Inferred(2)
  /\ env.file.levels[2].w = 16 /\ env.file.levels[2].h = 4
  /\ WidthRatio(2) = DS_UNIT /\ HeightRatio(2) = 4 * DS_UNIT
  /\ osr.levels[2].downsample = (5 * DS_UNIT) \div 2

\* the output the scalar reference of a kernel kind gives on the buffers a
ReferenceOf(kind, a) ==
  IF kind = "bgr24" THEN ArgbOf(a.src)
  ELSE IF kind = "gray16" THEN SaturatedOf(a.src, a.bits)
  ELSE [i \in 1..Len(a.src) |->
          IF i % 2 = 1 THEN a.src[(i + 1) \div 2]
          ELSE a.src[Len(a.src) \div 2 + i \div 2]]

\* C19 as claimed: the call target of each kernel kind is the dispatcher
\* or an implementation; once a call of the kind has completed it is an
\* implementation, the one every thread was bound to; and every call, also
\* one made while another thread is making its first call, returns with
\* the reference output of the kernel.
C19_Claimed_DispatchBindsOnce ==
  /\ \A kind \in DOMAIN image :
       image[kind] \in {"dispatch", "generic", "ssse3", "sse3", "sse2", "avx2"}
  /\ \A t \in Threads :
       thr[t].pc \in {"done", "fault"} =>
         /\ image[thr[t].op] # "dispatch"
         /\ image[thr[t].op] = thr[t].target
         /\ thr[t].pc = "done"
         /\ thr[t].fault = "no"
         /\ thr[t].dst = ReferenceOf(thr[t].op, thr[t].arg)

\* the levels of the open slide that share level a's downsample
EqualFactor(a) ==
  {l \in 0..(osr.level_count - 1) :
     osr.levels[l + 1].downsample = osr.levels[a + 1].downsample}

\* a finished best-level query whose target is at or above the downsample
\* shared by level a and another level, and below every larger downsample
TiedQuery(t, a) ==
  /\ OpenSucceeded /\ thr[t].pc = "done"
  /\ thr[t].op = "get_best_level_for_downsample" /\ thr[t].entry = NULL
  /\ a \in 0..(osr.level_count - 1)
  /\ Cardinality(EqualFactor(a)) >= 2
  /\ thr[t].arg.i >= osr.levels[a + 1].downsample
  /\ \A l \in 0..(osr.level_count - 1) :
       osr.levels[l + 1].downsample > osr.levels[a + 1].downsample =>
         thr[t].arg.i < osr.levels[l + 1].downsample

\* C24 as stated: when two or more levels have the same downsample and the
\* target is at or above it and below the next larger one, the best-level
\* query returns the lowest index among the equal-factor levels.
C24_Claimed_LowestAmongEqual ==
  \A t \in Client : \A a \in 0..(MaxLevels - 1) :
    TiedQuery(t, a) =>
      \A l \in EqualFactor(a) : thr[t].ret.i <= l

\* C24: when two or more levels have the same downsample and the target is
\* at or above it and below the next larger one, the best-level query
\* returns the highest index among the equal-factor levels.
C24_HighestAmongEqual ==
  \A t \in Client : \A a \in 0..(MaxLevels - 1) :
    TiedQuery(t, a) =>
      /\ thr[t].ret.i \in EqualFactor(a)
      /\ \A l \in EqualFactor(a) : thr[t].ret.i >= l

\* levels 1 and 2 both have downsample 4, the target 10 gave level 2
C24_Witness ==
  /\ OpenSucceeded /\ osr.error = NULL
  /\ osr.level_count = 3
  /\ osr.levels[1].downsample = DS_UNIT
  /\ osr.levels[2].downsample = 4 * DS_UNIT
  /\ osr.levels[3].downsample = 4 * DS_UNIT
  /\ thr["t1"].pc = "done"
  /\ thr["t1"].op = "get_best_level_for_downsample"
  /\ thr["t1"].arg = Num(10 * DS_UNIT)
  /\ thr["t1"].ret = Num(2)

\* C25 as stated: on a Ready handle no public operation indexes the level
\* array outside 0 .. level_count - 1, whatever level the caller passes
\* (negative ones included): full-colour and gray reads, level-dimension,
\* level-downsample and best-level queries.
C25_Claimed_LevelIndexInRange ==
  \A t \in Client :
    (thr[t].pc # "idle" /\ "calls" \in DOMAIN thr[t]) =>
      "levels[oob]" \notin thr[t].calls

\* C26 as stated: every vectorized kernel (BGR24, Gray16 and restore, SSE
\* and AVX2 variants) stays inside its source and destination buffers for
\* every input length, a length of 0 and a length below one vector step
\* included.
C26_Claimed_KernelsInBounds ==
  \A t \in Client :
    (thr[t].pc \in {"done", "fault"} /\ thr[t].op \in {"bgr24", "gray16", "restore"}
       /\ thr[t].target # "generic") =>
      thr[t].fault # "overrun"

\* C28 as stated: for every combination of CPU features a dispatcher binds
\* a vectorized implementation only if the CPU reports every extension the
\* implementation uses, and the scalar one otherwise; in particular the
\* feature tested before binding the SSE gray16 variant implies support
\* for all of its instructions.
C28_Claimed_BoundImplementationSupported ==
  \A kind \in DOMAIN image :
    image[kind] # "dispatch" =>
      /\ image[kind] \in {"generic", "ssse3", "sse3", "sse2", "avx2"}
      /\ Extensions(kind, image[kind]) \subseteq env.cpu

\* a finished call of the wide-format decode whose decoder was created and
\* initialised
JxrDecoded(c) ==
  /\ c.pc \in {"done", "fault"} /\ c.op = "jxr_decode_buf"
  /\ ~(c.arg.status[1] < 0) /\ ~(c.arg.status[2] < 0)

\* C21 as stated: the wide-format decode rejects every source pixel layout
\* outside the allow-list (24bpp BGR, 48bpp RGB, 8bpp gray, 16bpp gray): it
\* sets the unsupported-format reason, writes nothing to the destination
\* and returns failure.
C21_Claimed_UnsupportedFormatFails ==
  \A t \in Client :
    (JxrDecoded(thr[t]) /\ thr[t].arg.fmt \notin JxrAllowed) =>
      /\ thr[t].pc = "done"
      /\ thr[t].err = MSG_JXR_FORMAT
      /\ thr[t].out = "S"
      /\ thr[t].ret.b = FALSE

\* the status the decode left with: the first negative one of the run, or
\* WMP_errSuccess
RECURSIVE JxrFailedWith(_, _)
JxrFailedWith(status, k) ==
  IF k > Len(status) THEN WMP_errSuccess
  ELSE IF status[k] < 0 THEN status[k]
  ELSE JxrFailedWith(status, k + 1)

\* C22 as stated: whenever the decode returns failure because the codec
\* reported a negative status, the error reason is a readable message
\* naming that status, for every status of the translation table, its first
\* entry (WMP_errFail) included; the decode never returns failure with no
\* reason set.
C22_Claimed_FailureHasReason ==
  \A t \in Client :
    (thr[t].pc = "done" /\ thr[t].op = "jxr_decode_buf"
       /\ thr[t].ret.b = FALSE) =>
      \A k \in 1..(Len(msgs) - 1) :
        JxrFailedWith(thr[t].arg.status, 1) = msgs[k].id =>
          /\ thr[t].err # NULL
          /\ thr[t].err = JxrDecodeError(msgs[k].msg)

\* C27 as stated: on every exit path of the wide-format decode (codec
\* creation failure, decoder init failure, unsupported pixel format,
\* converter creation or copy failure, success) cleanup releases only the
\* objects that were created and never calls Release through a decoder or
\* converter reference that is still null.
C27_Claimed_CleanupReleasesCreated ==
  \A t \in Client :
    (thr[t].pc \in {"done", "fault"} /\ thr[t].op = "jxr_decode_buf") =>
      /\ "NULL->Release(&pDecoder)" \notin thr[t].calls
      /\ "NULL->Release(&pConverter)" \notin thr[t].calls

\* the least offset at which the eight magic bytes lie inside data, or -1
FirstMagic(data) ==
  LET at == {s \in 0..(Len(data) - 8) : SubSeq(data, s + 1, s + 8) = WMPHOTO}
  IN IF at = {} THEN -1 ELSE CHOOSE s \in at : \A o \in at : s <= o

\* the big-endian field of n bytes at offset o, plus 1, in 16-bit halves
\* (a high half of 65536 is 2^32)
FieldPlus1(data, o, n) ==
  LET hi == IF n = 2 THEN 0 ELSE data[o + 1] * 256 + data[o + 2]
      lo == data[o + n - 1] * 256 + data[o + n]
  IN IF lo + 1 < 65536 THEN U32(hi, lo + 1) ELSE U32(hi + 1, 0)

\* C23 as stated: for every buffer and every data_len, lengths below the
\* 8-byte magic included, the dimension probe reads only bytes inside the
\* buffer, returns false when the magic 'WMPHOTO\0' does not occur, and
\* when it occurs, at any offset after any run of zeros, returns true with
\* width and height the stored big-endian fields plus 1: 16-bit fields at
\* magic offsets 12 and 14 when bit 0x80 of byte 10 is set, 32-bit fields
\* at offsets 12 and 16 otherwise.
C23_Claimed_DimProbe ==
  \A t \in Client :
    (thr[t].pc \in {"done", "fault"} /\ thr[t].op = "jxr_dim") =>
      LET data == thr[t].arg.data
          s == FirstMagic(data)
          short == (data[s + 11] \div 128) % 2 = 1
      IN /\ thr[t].pc = "done"
         /\ thr[t].fault = "no"
         /\ s = -1 => thr[t].ret.b = FALSE
         /\ (s # -1 /\ s + 20 <= Len(data)) =>
              /\ thr[t].ret.b = TRUE
              /\ thr[t].width =
                   FieldPlus1(data, s + 12, IF short THEN 2 ELSE 4)
              /\ thr[t].height =
                   FieldPlus1(data, IF short THEN s + 14 ELSE s + 16,
                              IF short THEN 2 ELSE 4)

====
